---------------------------- MODULE Spec2Model ----------------------------
(***************************************************************************)
(* A model of the lustre path tracer's acceleration core: the bounding box *)
(* algebra and its two ray/box tests (src/src/bounds.rs), the hit record   *)
(* finalisation and the transform wrapper (src/src/hittables.rs,           *)
(* src/src/hittables/transform.rs), the quad and list intersectors         *)
(* (src/src/hittables/quad.rs, src/src/hittables/list.rs), the arena       *)
(* backed SAH tree (src/src/tree.rs, src/src/utils/arena.rs) and the       *)
(* per-pixel render loop (src/src/render.rs, src/src/main.rs).             *)
(*                                                                         *)
(* Numbers.  The program computes in f32.  The model uses integers: every  *)
(* coordinate, ray origin and ray parameter is an integer, ray directions  *)
(* have components in {-1, 0, 1}, so every product, quotient and           *)
(* comparison the code performs on them is exact in f32 as well.  The      *)
(* three non-ordinary f32 values the code meets are encoded as integers    *)
(* outside the range of ordinary values: F32_MAX (and -F32_MAX, which is   *)
(* f32::MIN), INFINITY (and -INFINITY) and NAN.  The operators F32Mul,     *)
(* F32Add, F32Max, ... give them the IEEE-754 meaning.                     *)
(***************************************************************************)
EXTENDS Integers, Sequences, FiniteSets, TLC

VARIABLES
    args,       \* the inputs of the pure function under test (box specs)
    result,     \* the value the last applied operation returned
    debug_assertions, \* build configuration: cfg!(debug_assertions)
    scene,      \* Tree::new's `items` argument: the flat list of hittables
    pc,         \* position of the Tree::new call
    arena,      \* Tree.arena.store
    root,       \* Tree.root
    stack,      \* the call stack of new_interior
    allocs,     \* number of Arena::add calls made so far
    query,      \* the last ray query answered on the built tree
    runs,       \* the render runs (one image buffer each)
    shade_stack, \* the call stack of Ray::shade
    hits        \* number of hit queries Ray::shade has made

vars == <<args, result, debug_assertions, scene, pc, arena, root, stack,
          allocs, query, runs, shade_stack, hits>>

(***************************************************************************)
(* Bounds of the model                                                     *)
(***************************************************************************)
\* box corners of the union/inside specification lie in 0..CoordMax
CoordMax == 1
\* the boxes of the ray/box specification have even extents up to 2 * HitMax
HitMax == 1
\* Tree::new is given at most MaxItems items
MaxItems == 6

(***************************************************************************)
(* f32 values                                                              *)
(***************************************************************************)
\* f32::MAX; f32::MIN is -F32_MAX.  Larger than every ordinary value.
F32_MAX == 100000
\* f32::INFINITY
INFINITY == 200000
\* a NaN: not ordered, every comparison with it is false
NAN == 3 * INFINITY

IsNan(x) == x = NAN
IsFinite(x) == x # NAN /\ x # INFINITY /\ x # -INFINITY

\* the comparison operators of f32: false when an operand is a NaN
F32Lt(a, b) == ~IsNan(a) /\ ~IsNan(b) /\ a < b
F32Le(a, b) == ~IsNan(a) /\ ~IsNan(b) /\ a <= b

\* f32::max and f32::min: a NaN operand is ignored
F32Max(a, b) == IF IsNan(a) THEN b ELSE IF IsNan(b) THEN a
                ELSE IF a >= b THEN a ELSE b
F32Min(a, b) == IF IsNan(a) THEN b ELSE IF IsNan(b) THEN a
                ELSE IF a <= b THEN a ELSE b

\* a * b for an ordinary a and b ordinary or infinite: 0 * inf is a NaN
F32Mul(a, b) ==
    IF b = INFINITY \/ b = -INFINITY
    THEN IF a = 0 THEN NAN
         ELSE IF (a > 0) = (b > 0) THEN INFINITY ELSE -INFINITY
    ELSE a * b

\* 1 / d for a direction component d in {-1, 0, 1}: 1/0 is +infinity
F32Recip(d) == IF d = 0 THEN INFINITY ELSE d

\* a / d for an ordinary a and d in {-1, 0, 1}
F32Div(a, d) ==
    IF d = 0
    THEN IF a = 0 THEN NAN ELSE IF a > 0 THEN INFINITY ELSE -INFINITY
    ELSE a * d

(***************************************************************************)
(* glam::Vec3A: a triple indexed 1..3 (Axis::X, Axis::Y, Axis::Z)         *)
(***************************************************************************)
AXES == <<1, 2, 3>>
Vec3(x, y, z) == <<x, y, z>>
splat(v) == <<v, v, v>>
VecMin(a, b) == [i \in 1..3 |-> IF a[i] <= b[i] THEN a[i] ELSE b[i]]
VecMax(a, b) == [i \in 1..3 |-> IF a[i] >= b[i] THEN a[i] ELSE b[i]]
VecAdd(a, b) == [i \in 1..3 |-> a[i] + b[i]]
VecSub(a, b) == [i \in 1..3 |-> a[i] - b[i]]
VecNeg(a) == [i \in 1..3 |-> -a[i]]
VecScale(a, t) == [i \in 1..3 |-> a[i] * t]
VecMulC(a, b) == [i \in 1..3 |-> a[i] * b[i]]
dot(a, b) == a[1] * b[1] + a[2] * b[2] + a[3] * b[3]
cmple_all(a, b) == \A i \in 1..3 : a[i] <= b[i]
cmplt_all(a, b) == \A i \in 1..3 : a[i] < b[i]

(***************************************************************************)
(* BoundingBox (src/src/bounds.rs)                                         *)
(***************************************************************************)
BoundingBox(mn, mx) == [min |-> mn, max |-> mx]

\* BoundingBox::new
BoundingBox_new(p0, p1) == BoundingBox(VecMin(p0, p1), VecMax(p0, p1))

DefaultBoxZero == BoundingBox(splat(0), splat(0))
\* impl Default for BoundingBox
BoundingBox_default == BoundingBox(splat(F32_MAX), splat(-F32_MAX))

unionKeepSelfMax(self, other) ==
    BoundingBox(VecMin(self.min, other.min), self.max)
\* BoundingBox::union
union(self, other) ==
    BoundingBox(VecMin(self.min, other.min), VecMax(self.max, other.max))

\* BoundingBox::add_point
add_point(self, point) ==
    BoundingBox(VecMin(self.min, point), VecMax(self.max, point))

\* BoundingBox::inside
inside(self, point) == cmple_all(point, self.max) /\ cmple_all(self.min, point)

\* BoundingBox::overlaps
overlaps(self, other) ==
    cmple_all(other.min, self.max) /\ cmple_all(self.min, other.max)

(***************************************************************************)
(* Ray (src/src/ray.rs)                                                    *)
(***************************************************************************)
\* Ray::new
Ray(origin, direction, time) ==
    [origin |-> origin, direction |-> direction, time |-> time]

\* Ray::at, for an ordinary t
at(self, t) == VecAdd(self.origin, VecScale(self.direction, t))

\* Vec3A::recip of a direction
recip(direction) == [i \in 1..3 |-> F32Recip(direction[i])]

(***************************************************************************)
(* The two ray/box tests (src/src/bounds.rs)                               *)
(***************************************************************************)
\* one iteration of the loop of BoundingBox::hit: TRUE when it returns false
HitSlabRejects(self, ray, t_min, t_max, axis_idx) ==
    LET inverse_dir == F32Recip(ray.direction[axis_idx])
        t0 == F32Mul(self.min[axis_idx] - ray.origin[axis_idx], inverse_dir)
        t1 == F32Mul(self.max[axis_idx] - ray.origin[axis_idx], inverse_dir)
        s0 == IF F32Lt(inverse_dir, 0) THEN t1 ELSE t0
        s1 == IF F32Lt(inverse_dir, 0) THEN t0 ELSE t1
        t_near == F32Max(s0, t_min)
        t_far == F32Min(s1, t_max)
    IN  F32Le(t_far, t_near)

\* BoundingBox::hit: every axis is tested against the caller's
\* [t_min, t_max]; nothing is carried from one axis to the next
hit(self, ray, t_min, t_max) ==
    \A axis_idx \in 1..3 : ~HitSlabRejects(self, ray, t_min, t_max, axis_idx)

\* an iteration that takes t0 for the near and t1 for the far plane,
\* whatever the sign of the direction
HitWithInvStepOrdered(self, ray, ray_dir_inv, acc, axis_idx) ==
    LET inverse_dir == ray_dir_inv[axis_idx]
        t0 == F32Mul(self.min[axis_idx] - ray.origin[axis_idx], inverse_dir)
        t1 == F32Mul(self.max[axis_idx] - ray.origin[axis_idx], inverse_dir)
    IN  [t_near |-> F32Max(acc.t_near, t0), t_far |-> F32Min(acc.t_far, t1)]
\* one iteration of the loop of BoundingBox::hit_with_inv
HitWithInvStep(self, ray, ray_dir_inv, acc, axis_idx) ==
    LET inverse_dir == ray_dir_inv[axis_idx]
        t0 == F32Mul(self.min[axis_idx] - ray.origin[axis_idx], inverse_dir)
        t1 == F32Mul(self.max[axis_idx] - ray.origin[axis_idx], inverse_dir)
    IN  [t_near |-> F32Min(F32Max(acc.t_near, t0), F32Max(acc.t_near, t1)),
         t_far |-> F32Max(F32Min(acc.t_far, t0), F32Min(acc.t_far, t1))]

hit_with_inv_strict(self, ray, ray_dir_inv, t_min, t_max) ==
    LET a0 == [t_near |-> t_min, t_far |-> t_max]
        a1 == HitWithInvStep(self, ray, ray_dir_inv, a0, 1)
        a2 == HitWithInvStep(self, ray, ray_dir_inv, a1, 2)
        a3 == HitWithInvStep(self, ray, ray_dir_inv, a2, 3)
    IN  F32Lt(a3.t_near, a3.t_far)
\* BoundingBox::hit_with_inv
hit_with_inv(self, ray, ray_dir_inv, t_min, t_max) ==
    LET a0 == [t_near |-> t_min, t_far |-> t_max]
        a1 == HitWithInvStep(self, ray, ray_dir_inv, a0, 1)
        a2 == HitWithInvStep(self, ray, ray_dir_inv, a1, 2)
        a3 == HitWithInvStep(self, ray, ray_dir_inv, a2, 3)
    IN  F32Le(a3.t_near, a3.t_far)

(***************************************************************************)
(* Option<T>                                                               *)
(***************************************************************************)
None == [some |-> FALSE]
Some(v) == [some |-> TRUE, val |-> v]

(***************************************************************************)
(* HitRecord (src/src/hittables.rs).  `prim` stands for the fields that    *)
(* identify the primitive that was hit (material, u, v).                   *)
(***************************************************************************)
HitRecord(point, normal, prim, t, front_face) ==
    [some |-> TRUE, point |-> point, normal |-> normal, prim |-> prim,
     t |-> t, front_face |-> front_face]

\* Option<HitRecord>::None
NoHit == [some |-> FALSE]

\* HitRecord::set_face_normal
set_face_normal(rec, ray, outward_n) ==
    IF dot(ray.direction, outward_n) < 0
    THEN [rec EXCEPT !.front_face = TRUE, !.normal = outward_n]
    ELSE [rec EXCEPT !.front_face = FALSE, !.normal = VecNeg(outward_n)]

(***************************************************************************)
(* Quad (src/src/hittables/quad.rs), for the axis-aligned rectangles that  *)
(* Quad::from_bounds_k builds.  Lengths are in units of the 0.0001 padding *)
(* of Quad::bounding_box, so the padding is 1.                             *)
(***************************************************************************)
\* the 0.0001 of Quad::bounding_box, the unit of length of the model
QUAD_PAD == 1

\* Quad::from_bounds_k (axis 0, 1, 2 of the code is 1, 2, 3 here)
from_bounds_k(a_min, a_max, b_min, b_max, k, axis) ==
    LET pts == CASE axis = 1 ->
                     <<Vec3(k, a_min, b_min), Vec3(k, a_max, b_min),
                       Vec3(k, a_max, b_max), Vec3(k, a_min, b_max)>>
                 [] axis = 2 ->
                     <<Vec3(a_min, k, b_min), Vec3(a_max, k, b_min),
                       Vec3(a_max, k, b_max), Vec3(a_min, k, b_max)>>
                 [] axis = 3 ->
                     <<Vec3(a_min, b_min, k), Vec3(a_max, b_min, k),
                       Vec3(a_max, b_max, k), Vec3(a_min, b_max, k)>>
    IN  [kind |-> "quad", p0 |-> pts[1], p1 |-> pts[2], p2 |-> pts[3],
         p3 |-> pts[4]]

\* Quad::bounding_box
Quad_bounding_box(self) ==
    LET mn == VecMin(VecMin(VecMin(self.p0, self.p1), self.p2), self.p3)
        mx == VecMax(VecMax(VecMax(self.p0, self.p1), self.p2), self.p3)
    IN  Some(BoundingBox(VecSub(mn, splat(QUAD_PAD)),
                         VecAdd(mx, splat(QUAD_PAD))))

\* Vec3A::cross
cross3(a, b) == Vec3(a[2] * b[3] - a[3] * b[2],
                     a[3] * b[1] - a[1] * b[3],
                     a[1] * b[2] - a[2] * b[1])
\* Quad::cross
cross2(a, b) == a[1] * b[2] - a[2] * b[1]
Abs(x) == IF x < 0 THEN -x ELSE x

\* (0.0..=1.0).contains(&(num / den)); a quotient by zero is infinite or a
\* NaN and is not contained
InUnitRange(num, den) ==
    IF den > 0 THEN 0 <= num /\ num <= den
    ELSE IF den < 0 THEN num <= 0 /\ den <= num
    ELSE FALSE

\* num / den for integers whose quotient is an integer, or den = 0
ExactDiv(num, den) ==
    IF den = 0
    THEN IF num = 0 THEN NAN ELSE IF num > 0 THEN INFINITY ELSE -INFINITY
    ELSE IF den > 0
         THEN IF num >= 0 THEN num \div den ELSE -((-num) \div den)
         ELSE IF num >= 0 THEN -(num \div (-den)) ELSE (-num) \div (-den)

\* Quad::hit.  For the rectangles of from_bounds_k the edges are parallel
\* (k2 = 0), so (u, v) come from the linear branch.  A ray parallel to the
\* plane gets an infinite or NaN t, which passes the bounds check only to
\* yield a non-finite point and (u, v) outside 0..=1.
Quad_hit(self, prim, ray, t_min, t_max) ==
    LET a == VecSub(self.p1, self.p0)
        b == VecSub(self.p3, self.p0)
        c == VecSub(self.p2, self.p0)
        p == VecSub(ray.origin, self.p0)
        plane_normal == cross3(a, b)
        t == ExactDiv(-dot(p, plane_normal), dot(ray.direction, plane_normal))
        abs_normal == [i \in 1..3 |-> Abs(plane_normal[i])]
        axis_idx == IF abs_normal[1] > abs_normal[2]
                        /\ abs_normal[1] > abs_normal[3] THEN 1
                    ELSE IF abs_normal[2] > abs_normal[3] THEN 2 ELSE 3
        \* AXIS_IDXS = [1, 2, 0, 1], shifted to the 1-based axes
        AXIS_IDXS == <<2, 3, 1, 2>>
        id_u == AXIS_IDXS[axis_idx]
        id_v == AXIS_IDXS[axis_idx + 1]
    IN  IF F32Lt(t, t_min) \/ F32Lt(t_max, t) THEN NoHit
        ELSE IF ~IsFinite(t) THEN NoHit
        ELSE
        LET point == VecAdd(p, VecScale(ray.direction, t))
            kp == <<point[id_u], point[id_v]>>
            ka == <<a[id_u], a[id_v]>>
            kb == <<b[id_u], b[id_v]>>
            kc == <<c[id_u], c[id_v]>>
            kg == <<kc[1] - kb[1] - ka[1], kc[2] - kb[2] - ka[2]>>
            k0 == cross2(kp, kb)
            k1 == cross2(kp, kg) - plane_normal[axis_idx]
            \* u = cross(kp, ka) / k1, v = -k0 / k1
            u_ok == InUnitRange(cross2(kp, ka), k1)
            v_ok == InUnitRange(-k0, k1)
            \* abs_normal.normalize(): the unit vector of the plane's axis
            normal == [i \in 1..3 |-> IF i = axis_idx THEN 1 ELSE 0]
        IN  IF ~u_ok \/ ~v_ok THEN NoHit
            ELSE set_face_normal(
                     HitRecord(at(ray, t), normal, prim, t, TRUE),
                     ray, normal)

(***************************************************************************)
(* An unbounded Hittable: the plane `axis = k`.  Its bounding_box returns  *)
(* None ("like planes", src/src/hittables.rs); its hit follows the         *)
(* Hittable contract the way Quad::hit does, without the (u, v) test.      *)
(***************************************************************************)
Plane(k, axis) == [kind |-> "plane", k |-> k, axis |-> axis]

Plane_bounding_box(self) == None

Plane_hit(self, prim, ray, t_min, t_max) ==
    LET normal == [i \in 1..3 |-> IF i = self.axis THEN 1 ELSE 0]
        t == ExactDiv(self.k - ray.origin[self.axis], ray.direction[self.axis])
    IN  IF F32Lt(t, t_min) \/ F32Lt(t_max, t) \/ ~IsFinite(t) THEN NoHit
        ELSE set_face_normal(
                 HitRecord(at(ray, t), normal, prim, t, TRUE), ray, normal)

\* dyn Hittable::hit
Hittable_hit(self, prim, ray, t_min, t_max) ==
    IF self.kind = "quad" THEN Quad_hit(self, prim, ray, t_min, t_max)
    ELSE Plane_hit(self, prim, ray, t_min, t_max)

\* dyn Hittable::bounding_box
Hittable_bounding_box(self) ==
    IF self.kind = "quad" THEN Quad_bounding_box(self)
    ELSE Plane_bounding_box(self)

(***************************************************************************)
(* Vec<T>::hit (src/src/hittables/list.rs).  `ids` are the positions in    *)
(* `objs` of the hittables of the list, in list order.                     *)
(***************************************************************************)
RECURSIVE ListHitLoop(_, _, _, _, _, _, _)
ListHitLoop(objs, ids, i, ray, t_min, t_closest, rec) ==
    IF i > Len(ids) THEN rec
    ELSE LET hit_result ==
                 Hittable_hit(objs[ids[i]], ids[i], ray, t_min, t_closest)
         IN  IF hit_result.some
             THEN ListHitLoop(objs, ids, i + 1, ray, t_min,
                              hit_result.t, hit_result)
             ELSE ListHitLoop(objs, ids, i + 1, ray, t_min, t_closest, rec)

\* the last hittable of the list that reports a hit within the caller's
\* interval, whatever its t
List_hit_last(objs, ids, ray, t_min, t_max) ==
    LET hitting == {i \in 1..Len(ids) :
                       Hittable_hit(objs[ids[i]], ids[i],
                                    ray, t_min, t_max).some}
        last == CHOOSE i \in hitting : \A j \in hitting : j <= i
    IN  IF hitting = {} THEN NoHit
        ELSE Hittable_hit(objs[ids[last]], ids[last], ray, t_min, t_max)
\* Vec<T>::hit
List_hit(objs, ids, ray, t_min, t_max) ==
    ListHitLoop(objs, ids, 1, ray, t_min, t_max, NoHit)

(***************************************************************************)
(* BoundingBox queries used by the tree build (src/src/bounds.rs)          *)
(***************************************************************************)
\* the debug_assert! of BoundingBox::diagonal fails
DiagonalAssertFails(self) == ~cmplt_all(self.min, self.max)

\* BoundingBox::diagonal.  On the default box it is f32::MIN - f32::MAX,
\* which overflows to -infinity.
diagonal(self) ==
    [i \in 1..3 |->
        IF self.max[i] - self.min[i] <= -INFINITY THEN -INFINITY
        ELSE self.max[i] - self.min[i]]

\* BoundingBox::surface_area: infinite on the default box
surface_area(self) ==
    LET d == diagonal(self)
    IN  IF \E i \in 1..3 : d[i] = -INFINITY THEN INFINITY
        ELSE 2 * (d[1] * d[2] + d[1] * d[3] + d[2] * d[3])

\* BoundingBox::longest_axis
longest_axis(self) ==
    LET d == diagonal(self)
    IN  IF d[1] > d[2] /\ d[1] > d[3] THEN 1
        ELSE IF d[2] > d[3] THEN 2 ELSE 3

\* BoundingBox::centroid; exact because min + max is even on every axis of
\* every box of the model
centroid(self) == [i \in 1..3 |-> (self.min[i] + self.max[i]) \div 2]

\* BoundingBox::offset(point)[axis], as the fraction num / den
offset(self, point, axis_idx) ==
    [num |-> point[axis_idx] - self.min[axis_idx],
     den |-> diagonal(self)[axis_idx]]

(***************************************************************************)
(* Arena (src/src/utils/arena.rs).  ArenaIndex i is position i + 1.        *)
(***************************************************************************)
\* Arena::new / Arena::with_capacity
Arena_new == <<>>
\* Arena::len
Arena_len(store) == Len(store)
\* the store after Arena::add(item); the index returned is Arena_len before
Arena_add_front(store, item) == <<item>> \o store
Arena_add(store, item) == Append(store, item)
\* the index Arena::add returns: self.store.len() before the push
Arena_add_index(store) == Len(store)
\* Index<ArenaIndex>
Arena_index(store, index) == store[index + 1]
\* Arena::get
Arena_get(store, index) ==
    IF index < Len(store) THEN Some(store[index + 1]) ELSE None

(***************************************************************************)
(* TreeNode, ItemInfo, Bin (src/src/tree.rs)                               *)
(***************************************************************************)
Leaf(bbox, leaf_items) ==
    [tag |-> "Leaf", bbox |-> bbox, items |-> leaf_items]
InteriorSwapped(bbox, left, right) ==
    [tag |-> "Interior", bbox |-> bbox, left |-> right, right |-> left]
Interior(bbox, left, right) ==
    [tag |-> "Interior", bbox |-> bbox, left |-> left, right |-> right]

\* the ItemInfo Tree::new computes for the item at position `id` of objs
ItemInfo(objs, id) ==
    LET bbox == Hittable_bounding_box(objs[id])
    IN  [item |-> id, bbox |-> bbox,
         centroid |-> IF bbox.some THEN Some(centroid(bbox.val)) ELSE None]

\* iter().filter_map(|info| info.bbox).reduce(|acc, b| acc.union(b))
RECURSIVE ReduceUnion(_, _, _)
ReduceUnion(info, i, acc) ==
    IF i > Len(info) THEN acc
    ELSE IF ~info[i].bbox.some THEN ReduceUnion(info, i + 1, acc)
    ELSE IF ~acc.some THEN ReduceUnion(info, i + 1, info[i].bbox)
    ELSE ReduceUnion(info, i + 1, Some(union(acc.val, info[i].bbox.val)))

ItemIdsFirst(info) == [i \in 1..Len(info) |-> info[1].item]
\* info.iter().map(|info| info.item.clone()).collect()
ItemIds(info) == [i \in 1..Len(info) |-> info[i].item]

new_leaf_first_bbox(info) ==
    LET boxed == SelectSeq(info, LAMBDA x : x.bbox.some)
    IN  Leaf(IF Len(boxed) = 0 THEN None ELSE boxed[1].bbox, ItemIds(info))
\* the node Tree::new_leaf adds to the arena
new_leaf(info) == Leaf(ReduceUnion(info, 1, None), ItemIds(info))

\* the leaf cutoff of new_interior: `num_items <= 4`
LeafCutoffFive(num_items) == num_items <= 5
LeafCutoff(num_items) == num_items <= 4

NUM_BINS == 16

\* comp_bin_idx(off) for off = num / den: `as usize` truncates, saturates
\* and maps NaN to 0
comp_bin_idx(off) ==
    LET idx == IF off.den = 0
               THEN IF off.num > 0 THEN INFINITY ELSE 0
               ELSE IF (off.num < 0) # (off.den < 0) THEN 0
               ELSE (NUM_BINS * Abs(off.num)) \div Abs(off.den)
    IN  IF idx > NUM_BINS - 1 THEN NUM_BINS - 1 ELSE idx

\* the bin index new_interior computes for an item
ItemBinIdx(item, centroid_bbox, axis_idx) ==
    IF item.centroid.some
    THEN comp_bin_idx(offset(centroid_bbox, item.centroid.val, axis_idx))
    ELSE comp_bin_idx([num |-> NUM_BINS \div 2, den |-> 1])

\* fold(BoundingBox::default(), |bbox, centroid| bbox.add_point(centroid))
RECURSIVE CentroidBbox(_, _, _)
CentroidBbox(info, i, acc) ==
    IF i > Len(info) THEN acc
    ELSE IF info[i].centroid.some
         THEN CentroidBbox(info, i + 1, add_point(acc, info[i].centroid.val))
         ELSE CentroidBbox(info, i + 1, acc)

Bin_default == [bbox |-> BoundingBox_default, count |-> 0]

\* the binning loop of new_interior: bins[0..NUM_BINS-1]
RECURSIVE FillBins(_, _, _, _, _)
FillBins(info, i, centroid_bbox, axis_idx, bins) ==
    IF i > Len(info) THEN bins
    ELSE LET item == info[i]
             bin_idx == ItemBinIdx(item, centroid_bbox, axis_idx)
             bin == bins[bin_idx]
             nbin == [count |-> bin.count + 1,
                      bbox |-> IF item.bbox.some
                               THEN union(bin.bbox, item.bbox.val)
                               ELSE bin.bbox]
         IN  FillBins(info, i + 1, centroid_bbox, axis_idx,
                      [bins EXCEPT ![bin_idx] = nbin])

\* f32 addition of x >= 0 to a cost: f32::MAX absorbs every ordinary x
F32AddCost(cost, x) ==
    IF cost = INFINITY \/ x = INFINITY THEN INFINITY
    ELSE IF cost = F32_MAX THEN F32_MAX
    ELSE cost + x

\* what a scan adds to a cost entry for one bin
BinTerm(bin) ==
    IF bin.count > 0 THEN F32Mul(bin.count, surface_area(bin.bbox)) ELSE 0

\* costs[0..NUM_BINS-2] after the forward and the backward scan: entry k
\* starts at f32::MAX, the forward scan adds the term of bin k and the
\* backward scan the term of bin k + 1
Costs(bins) ==
    [k \in 0..(NUM_BINS - 2) |->
        F32AddCost(F32AddCost(F32_MAX, BinTerm(bins[k])), BinTerm(bins[k + 1]))]

\* min_by(total_cmp): the first index of the smallest cost
MinBinIdx(costs) ==
    CHOOSE k \in DOMAIN costs :
        /\ \A j \in DOMAIN costs : costs[k] <= costs[j]
        /\ \A j \in DOMAIN costs : j < k => costs[j] > costs[k]

\* max_by(count): the last index of the largest count
MaxBinIdx(bins) ==
    CHOOSE k \in DOMAIN bins :
        /\ \A j \in DOMAIN bins : bins[k].count >= bins[j].count
        /\ \A j \in DOMAIN bins : j > k => bins[j].count < bins[k].count

Clamp(x, lo, hi) == IF x < lo THEN lo ELSE IF x > hi THEN hi ELSE x

\* `0.5 + min_cost / total_bbox.surface_area() < leaf_cost`, decided in
\* exact arithmetic: with sa > 0 it is sa + 2 * min_cost < 2 * leaf_cost * sa
MinCostBelowLeaf(min_cost, sa, leaf_cost) ==
    IF min_cost = INFINITY \/ sa = INFINITY \/ sa <= 0 THEN FALSE
    ELSE sa + 2 * min_cost < 2 * leaf_cost * sa

\* everything new_interior computes from its items before it recurses
SplitPlan(info) ==
    LET total_bbox == ReduceUnion(info, 1, None).val
        centroid_bbox == CentroidBbox(info, 1, BoundingBox_default)
        axis_idx == longest_axis(total_bbox)
        bins == FillBins(info, 1, centroid_bbox, axis_idx,
                         [k \in 0..(NUM_BINS - 1) |-> Bin_default])
        costs == Costs(bins)
        min_bin_idx == MinBinIdx(costs)
        min_cost == costs[min_bin_idx]
        max_bin_idx == Clamp(MaxBinIdx(bins), 1, NUM_BINS - 2)
        sah == MinCostBelowLeaf(min_cost, surface_area(total_bbox), Len(info))
        goes_left(item) ==
            IF ~item.centroid.some THEN TRUE
            ELSE IF sah
                 THEN ItemBinIdx(item, centroid_bbox, axis_idx) <= min_bin_idx
                 ELSE ItemBinIdx(item, centroid_bbox, axis_idx) >= max_bin_idx
    IN  [total_bbox |-> total_bbox,
         centroid_bbox |-> centroid_bbox,
         axis_idx |-> axis_idx,
         bins |-> bins,
         costs |-> costs,
         min_bin_idx |-> min_bin_idx,
         max_bin_idx |-> max_bin_idx,
         sah |-> sah,
         left_items |-> SelectSeq(info, goes_left),
         right_items |-> SelectSeq(info, LAMBDA x : ~goes_left(x)),
         \* a debug_assert! of BoundingBox::diagonal fails on the way:
         \* in longest_axis and surface_area of total_bbox, in offset on
         \* centroid_bbox, or in surface_area of a non-empty bin
         assert_fails |->
             \/ DiagonalAssertFails(total_bbox)
             \/ DiagonalAssertFails(centroid_bbox)
             \/ \E k \in DOMAIN bins :
                    bins[k].count > 0 /\ DiagonalAssertFails(bins[k].bbox)]

(***************************************************************************)
(* Tree::hit and Tree::hit_impl (src/src/tree.rs)                          *)
(***************************************************************************)
PrunedBoxless(node, ray, ray_inv_dir, t_min, t_max) ==
    \/ ~node.bbox.some
    \/ ~hit_with_inv(node.bbox.val, ray, ray_inv_dir, t_min, t_max)
\* `if let Some(bbox) = node.get_bbox()` and the box test fails
Pruned(node, ray, ray_inv_dir, t_min, t_max) ==
    /\ node.bbox.some
    /\ ~hit_with_inv(node.bbox.val, ray, ray_inv_dir, t_min, t_max)

TightenedTMaxKeep(left_hit, t_max) == t_max
\* left_hit.as_ref().map_or(t_max, |rec| rec.t)
TightenedTMax(left_hit, t_max) ==
    IF left_hit.some THEN left_hit.t ELSE t_max

RECURSIVE hit_impl(_, _, _, _, _, _, _)
hit_impl(store, objs, idx, ray, ray_inv_dir, t_min, t_max) ==
    LET node == Arena_index(store, idx)
    IN  IF Pruned(node, ray, ray_inv_dir, t_min, t_max)
        THEN NoHit
        ELSE IF node.tag = "Leaf"
        THEN List_hit(objs, node.items, ray, t_min, t_max)
        ELSE LET left_hit == hit_impl(store, objs, node.left, ray,
                                      ray_inv_dir, t_min, t_max)
                 t_max2 == TightenedTMax(left_hit, t_max)
                 right_hit == hit_impl(store, objs, node.right, ray,
                                       ray_inv_dir, t_min, t_max2)
             IN  IF right_hit.some THEN right_hit ELSE left_hit

\* impl Hittable for Tree: hit
Tree_hit(store, root_idx, objs, ray, t_min, t_max) ==
    hit_impl(store, objs, root_idx, ray, recip(ray.direction), t_min, t_max)

(***************************************************************************)
(* Specification SpecUnion: union and inside applied to drawn boxes        *)
(***************************************************************************)
Coords == 0..CoordMax
Points == {Vec3(x, y, z) : x \in Coords, y \in Coords, z \in Coords}
\* the boxes BoundingBox::new builds from two points, the box spanning the
\* whole finite range, and the default box
Boxes == {BoundingBox_new(p, q) : p \in Points, q \in Points}
            \cup {BoundingBox(splat(-F32_MAX), splat(F32_MAX))}
            \cup {BoundingBox(splat(F32_MAX), splat(-F32_MAX))}

NoResult == [op |-> "none"]
NoQuery == [op |-> "none"]

IdleTree ==
    /\ debug_assertions = FALSE
    /\ scene = <<>>
    /\ pc = "idle"
    /\ arena = <<>>
    /\ root = 0
    /\ stack = <<>>
    /\ allocs = 0
    /\ query = NoQuery

IdleRender == runs = <<>>

IdleShade == shade_stack = <<>> /\ hits = 0

InitUnion ==
    /\ args \in [a : Boxes, b : Boxes, p : Points]
    /\ result = NoResult
    /\ IdleTree
    /\ IdleRender
    /\ IdleShade

\* def.union(b) with def = BoundingBox::default(), as tests::default_union
DefaultUnion ==
    /\ result = NoResult
    /\ result' = [op |-> "default_union", b |-> args.b,
                  val |-> union(BoundingBox_default, args.b)]
    /\ UNCHANGED <<args, debug_assertions, scene, pc, arena, root, stack,
                   allocs, query, runs, shade_stack,
                   hits>>

\* a.union(b), then inside(p) on a, b and the union
UnionInside ==
    /\ result = NoResult
    /\ result' = [op |-> "union_inside", a |-> args.a, b |-> args.b,
                  p |-> args.p,
                  in_a |-> inside(args.a, args.p),
                  in_b |-> inside(args.b, args.p),
                  in_u |-> inside(union(args.a, args.b), args.p)]
    /\ UNCHANGED <<args, debug_assertions, scene, pc, arena, root, stack,
                   allocs, query, runs, shade_stack,
                   hits>>

NextUnion == DefaultUnion \/ UnionInside

SpecUnion == InitUnion /\ [][NextUnion]_vars

\* C8: for every bounding box B, BoundingBox::default().union(B) equals B.
C8_DefaultUnionIdentity ==
    result.op = "default_union" => result.val = result.b

\* the default union was applied to a proper box (min < max on some axis)
C8_Witness ==
    /\ result.op = "default_union"
    /\ \E i \in 1..3 : result.b.min[i] < result.b.max[i]
    /\ result.val = result.b

\* C9: for all boxes A and B and every point p, if A.inside(p) or
\* B.inside(p) then A.union(B).inside(p).
C9_UnionContains ==
    result.op = "union_inside" =>
        ((result.in_a \/ result.in_b) => result.in_u)

\* p lies in B only, and the union of A and B contains it
C9_Witness ==
    /\ result.op = "union_inside"
    /\ ~result.in_a
    /\ result.in_b
    /\ result.in_u

(***************************************************************************)
(* Specification SpecBoxHit: the two ray/box tests on drawn rays and boxes *)
(***************************************************************************)
Directions ==
    {Vec3(x, y, z) : x \in -1..1, y \in -1..1, z \in -1..1} \ {Vec3(0, 0, 0)}
HitOrigins ==
    LET R == -2..(2 * HitMax + 1) IN {Vec3(x, y, z) : x \in R, y \in R, z \in R}
HitExtents == {2 * i : i \in 0..HitMax}
HitBoxes ==
    {BoundingBox(splat(0), Vec3(x, y, z)) :
        x \in HitExtents, y \in HitExtents, z \in HitExtents}
\* (t_min, t_max): the interval Ray::shade asks for, and a bounded one
Intervals == {<<0, INFINITY>>, <<1, 3>>}

InitBoxHit ==
    /\ args \in [box : HitBoxes,
                 ray : {Ray(o, d, 0) : o \in HitOrigins, d \in Directions},
                 interval : Intervals]
    /\ result = NoResult
    /\ IdleTree
    /\ IdleRender
    /\ IdleShade

\* bbox.hit(ray, t_min, t_max)
BoxHit ==
    /\ result.op # "hit"
    /\ result' = [op |-> "hit",
                  val |-> hit(args.box, args.ray,
                              args.interval[1], args.interval[2])]
    /\ UNCHANGED <<args, debug_assertions, scene, pc, arena, root, stack,
                   allocs, query, runs, shade_stack,
                   hits>>

\* bbox.hit_with_inv(ray, ray.direction.recip(), t_min, t_max)
BoxHitWithInv ==
    /\ result.op # "hit_with_inv"
    /\ result' = [op |-> "hit_with_inv",
                  val |-> hit_with_inv(args.box, args.ray,
                                       recip(args.ray.direction),
                                       args.interval[1], args.interval[2])]
    /\ UNCHANGED <<args, debug_assertions, scene, pc, arena, root, stack,
                   allocs, query, runs, shade_stack,
                   hits>>

NextBoxHit == BoxHit \/ BoxHitWithInv

SpecBoxHit == InitBoxHit /\ [][NextBoxHit]_vars

\* the ray runs inside a face plane of the box: it is parallel to a slab
\* and its origin lies on one of the slab's two planes
InFacePlane(box, ray) ==
    \E i \in 1..3 :
        /\ ray.direction[i] = 0
        /\ ray.origin[i] = box.min[i] \/ ray.origin[i] = box.max[i]

\* the ray only touches the box within the interval: the part of it inside
\* all three slabs and inside [t_min, t_max] is a single point
Grazes(box, ray, t_min, t_max) ==
    /\ hit_with_inv(box, ray, recip(ray.direction), t_min, t_max)
    /\ ~hit_with_inv_strict(box, ray, recip(ray.direction), t_min, t_max)

TangentToSlab(box, ray, t_min, t_max) ==
    InFacePlane(box, ray) \/ Grazes(box, ray, t_min, t_max)

\* C7: for every ray, interval and box such that the ray is not tangent to
\* any slab of the box (it neither runs inside a face plane nor merely
\* touches the box), BoundingBox::hit and BoundingBox::hit_with_inv (given
\* inv_dir = 1/direction) return the same boolean.
C7_BoxTestsAgree ==
    (/\ result.op = "hit"
     /\ ~TangentToSlab(args.box, args.ray, args.interval[1], args.interval[2]))
    => result.val = hit_with_inv(args.box, args.ray,
                                 recip(args.ray.direction),
                                 args.interval[1], args.interval[2])

(***************************************************************************)
(* Specification Spec: Tree::new on a drawn scene, then ray queries        *)
(***************************************************************************)
\* The hittables scenes are made of: three quads facing the x axis, two of
\* them coplanar and overlapping, and an unbounded plane behind them.
QuadA == from_bounds_k(0, 2, 0, 2, 4, 1)
QuadB == from_bounds_k(0, 6, 0, 2, 4, 1)
QuadC == from_bounds_k(2, 4, 2, 6, 12, 1)
PlaneP == Plane(6, 1)
Catalogue == {QuadA, QuadB, QuadC, PlaneP}

Scenes == UNION {[1..n -> Catalogue] : n \in 0..MaxItems}

\* the rays and intervals queried on a built tree
TreeRays ==
    {Ray(Vec3(-2, 1, 1), Vec3(1, 0, 0), 0),
     Ray(Vec3(-2, 3, 4), Vec3(1, 0, 0), 0),
     Ray(Vec3(-2, 9, 9), Vec3(1, 0, 0), 0),
     Ray(Vec3(14, 1, 1), Vec3(-1, 0, 0), 0),
     Ray(Vec3(1, -2, 1), Vec3(1, 1, 0), 0),
     Ray(Vec3(-2, 1, 1), Vec3(0, 1, 0), 0)}
TreeIntervals == {<<0, INFINITY>>, <<0, 6>>, <<7, INFINITY>>}

\* the call nests deeper than any terminating recursion on the scene can:
\* a call that recursed deeper than it has items handed all its items to
\* one child, which then does the same.  The program overflows its stack.
MaxDepth == MaxItems

Depth(stk) == Len(SelectSeq(stk, LAMBDA f : f.kind = "cont"))
Top(stk) == stk[Len(stk)]
Pop(stk) == SubSeq(stk, 1, Len(stk) - 1)

FillInteriorKeepPlaceholder(store, new_idx, total_bbox, left_idx, right_idx) ==
    [store EXCEPT ![new_idx + 1] = Interior(Some(total_bbox), 0, 0)]
\* self.arena[new_idx] = TreeNode::Interior { bbox, left, right }
FillInterior(store, new_idx, total_bbox, left_idx, right_idx) ==
    [store EXCEPT ![new_idx + 1] =
        Interior(Some(total_bbox), left_idx, right_idx)]

Init ==
    /\ scene \in Scenes
    /\ debug_assertions \in BOOLEAN
    /\ pc = "new"
    /\ arena = Arena_new
    /\ root = 0
    /\ stack = <<>>
    /\ allocs = 0
    /\ query = NoQuery
    /\ args = [op |-> "none"]
    /\ result = NoResult
    /\ IdleRender
    /\ IdleShade

\* Tree::new up to its call of new_interior
TreeNew ==
    /\ pc = "new"
    /\ IF Len(scene) = 0
       THEN \* debug_assert!(!items.is_empty()); without it
            \* (items.len() * 2) - 1 wraps and Vec::with_capacity panics
            /\ pc' = IF debug_assertions THEN "panic: Given empty scene!"
                     ELSE "panic: capacity overflow"
            /\ UNCHANGED stack
       ELSE /\ pc' = "build"
            /\ stack' = <<[kind |-> "call",
                           items |-> [i \in 1..Len(scene) |->
                                          ItemInfo(scene, i)]]>>
    /\ arena' = Arena_new
    /\ UNCHANGED <<args, result, debug_assertions, scene, root, allocs,
                   query, runs, shade_stack,
                   hits>>

\* a call of new_interior, up to its return or its first recursive call
NewInteriorCall ==
    /\ pc = "build"
    /\ Top(stack).kind = "call"
    /\ LET info == Top(stack).items
           total_bbox == ReduceUnion(info, 1, None)
       IN  IF LeafCutoff(Len(info)) \/ ~total_bbox.some
           THEN /\ arena' = Arena_add(arena, new_leaf(info))
                /\ allocs' = allocs + 1
                /\ stack' = Append(Pop(stack),
                                   [kind |-> "ret", idx |-> Arena_len(arena)])
                /\ pc' = pc
           ELSE LET plan == SplitPlan(info)
                IN  IF debug_assertions /\ plan.assert_fails
                    THEN /\ pc' = "panic: debug_assert in diagonal"
                         /\ UNCHANGED <<arena, allocs, stack>>
                    ELSE IF Depth(stack) >= MaxDepth
                    THEN /\ pc' = "stack overflow"
                         /\ UNCHANGED <<arena, allocs, stack>>
                    ELSE /\ arena' = Arena_add(arena, Interior(None, 0, 0))
                         /\ allocs' = allocs + 1
                         /\ stack' = Pop(stack) \o
                               <<[kind |-> "cont",
                                  new_idx |-> Arena_len(arena),
                                  total_bbox |-> plan.total_bbox,
                                  stage |-> "left",
                                  right_items |-> plan.right_items,
                                  left_idx |-> 0],
                                 [kind |-> "call",
                                  items |-> plan.left_items]>>
                         /\ pc' = pc
    /\ UNCHANGED <<args, result, debug_assertions, scene, root, query, runs,
                   shade_stack, hits>>

\* a recursive call of new_interior returns into its caller
NewInteriorReturn ==
    /\ pc = "build"
    /\ Top(stack).kind = "ret"
    /\ Len(stack) > 1
    /\ LET ret == Top(stack)
           cont == stack[Len(stack) - 1]
           rest == SubSeq(stack, 1, Len(stack) - 2)
       IN  IF cont.stage = "left"
           THEN /\ stack' = rest \o
                      <<[cont EXCEPT !.stage = "right", !.left_idx = ret.idx],
                        [kind |-> "call", items |-> cont.right_items]>>
                /\ UNCHANGED arena
           ELSE /\ arena' = FillInterior(arena, cont.new_idx, cont.total_bbox,
                                         cont.left_idx, ret.idx)
                /\ stack' = Append(rest, [kind |-> "ret",
                                          idx |-> cont.new_idx])
    /\ UNCHANGED <<args, result, debug_assertions, scene, pc, root, allocs,
                   query, runs, shade_stack,
                   hits>>

\* Tree::new after new_interior returned: set the root, shrink, return
TreeNewReturn ==
    /\ pc = "build"
    /\ Top(stack).kind = "ret"
    /\ Len(stack) = 1
    /\ root' = Top(stack).idx
    /\ stack' = <<>>
    /\ pc' = "done"
    /\ UNCHANGED <<args, result, debug_assertions, scene, arena, allocs,
                   query, runs, shade_stack,
                   hits>>

\* tree.hit(ray, t_min, t_max) on the built tree, next to the list
\* intersector's answer on the same items
TreeHit ==
    /\ pc = "done"
    /\ query = NoQuery
    /\ \E ray \in TreeRays, iv \in TreeIntervals :
          query' = [op |-> "hit", ray |-> ray, t_min |-> iv[1],
                    t_max |-> iv[2],
                    tree |-> Tree_hit(arena, root, scene, ray, iv[1], iv[2]),
                    list |-> List_hit(scene, [i \in 1..Len(scene) |-> i],
                                      ray, iv[1], iv[2])]
    /\ UNCHANGED <<args, result, debug_assertions, scene, pc, arena, root,
                   stack, allocs, runs, shade_stack,
                   hits>>

Next ==
    \/ TreeNew
    \/ NewInteriorCall
    \/ NewInteriorReturn
    \/ TreeNewReturn
    \/ TreeHit

Spec == Init /\ [][Next]_vars

Returned == pc = "done"

\* the (some, t, primitive, front_face) of a hit result
HitSummary(rec) ==
    IF rec.some THEN <<TRUE, rec.t, rec.prim, rec.front_face>>
    ELSE <<FALSE, 0, 0, FALSE>>

\* C1: for every non-empty item list and every ray and interval, Tree::hit
\* on the tree built by Tree::new returns the same result as the linear
\* list intersector on the same items: both miss, or both hit with the same
\* t, the same primitive and the same front_face.
C1_TreeHitEqualsListHit ==
    query.op = "hit" => HitSummary(query.tree) = HitSummary(query.list)

\* C2: Tree::new terminates for every non-empty item list: the recursion of
\* new_interior always reaches the leaf base case and never nests without
\* bound.
C2_BuildTerminates ==
    Len(scene) > 0 => pc # "stack overflow"

\* the nodes of a tree
Nodes == 0..(Arena_len(arena) - 1)
Node(i) == Arena_index(arena, i)

\* box `outer` encloses box `inner`
Encloses(outer, inner) ==
    cmple_all(outer.min, inner.min) /\ cmple_all(inner.max, outer.max)

\* C3: in every tree returned by Tree::new, each leaf's bbox encloses the
\* bounding box of every bounded item it holds, and each interior node's
\* bbox encloses the bboxes of both of its children whenever those are
\* present.
C3_BoxesEnclose ==
    Returned =>
        \A i \in Nodes :
            IF Node(i).tag = "Leaf"
            THEN \A j \in 1..Len(Node(i).items) :
                    LET b == Hittable_bounding_box(scene[Node(i).items[j]])
                    IN  b.some =>
                            /\ Node(i).bbox.some
                            /\ Encloses(Node(i).bbox.val, b.val)
            ELSE \A c \in {Node(i).left, Node(i).right} :
                    Node(c).bbox.some =>
                        /\ Node(i).bbox.some
                        /\ Encloses(Node(i).bbox.val, Node(c).bbox.val)

\* a returned tree whose root is an interior node with two boxed children,
\* one of them a leaf of several bounded items with different boxes
C3_Witness ==
    /\ Returned
    /\ Node(root).tag = "Interior"
    /\ Node(Node(root).left).bbox.some
    /\ Node(Node(root).right).bbox.some
    /\ \E i \in Nodes :
          /\ Node(i).tag = "Leaf"
          /\ \E j, k \in 1..Len(Node(i).items) :
                /\ Hittable_bounding_box(scene[Node(i).items[j]]).some
                /\ Hittable_bounding_box(scene[Node(i).items[k]]).some
                /\ Hittable_bounding_box(scene[Node(i).items[j]])
                       # Hittable_bounding_box(scene[Node(i).items[k]])

\* the number of paths of at most `fuel` edges from node n to node target
RECURSIVE PathsFrom(_, _, _)
PathsFrom(n, target, fuel) ==
    (IF n = target THEN 1 ELSE 0)
    + (IF fuel = 0 \/ n >= Arena_len(arena) \/ Node(n).tag = "Leaf" THEN 0
       ELSE PathsFrom(Node(n).left, target, fuel - 1)
            + PathsFrom(Node(n).right, target, fuel - 1))

\* C4: in every tree returned by Tree::new, every arena entry is reachable
\* from the root by following left/right indices, each entry is reached by
\* exactly one path, and the arena length equals the number of nodes
\* allocated during the build.
C4_ArenaIsTheTree ==
    Returned =>
        /\ \A i \in Nodes : PathsFrom(root, i, Arena_len(arena)) = 1
        /\ Arena_len(arena) = allocs

\* a returned tree of two levels of interior nodes
C4_Witness ==
    /\ Returned
    /\ Arena_len(arena) >= 5
    /\ \E i \in Nodes :
          /\ Node(i).tag = "Interior"
          /\ i # root
          /\ PathsFrom(root, i, Arena_len(arena)) = 1

AllUnbounded(leaf_items) ==
    \A j \in 1..Len(leaf_items) :
        ~Hittable_bounding_box(scene[leaf_items[j]]).some

\* C5: every Leaf node of a tree returned by Tree::new holds at most 4
\* items, for every input list, including lists with more than 4 items that
\* are all unbounded.
C5_LeafAtMostFour ==
    Returned =>
        \A i \in Nodes : Node(i).tag = "Leaf" => Len(Node(i).items) <= 4

\* C5 as amended: every Leaf node of a tree returned by Tree::new holds at
\* most 4 items, unless all the items it holds are unbounded.
C5_LeafAtMostFourOrUnbounded ==
    Returned =>
        \A i \in Nodes :
            Node(i).tag = "Leaf" =>
                Len(Node(i).items) <= 4 \/ AllUnbounded(Node(i).items)

\* a returned tree with a leaf of more than 4 items, all unbounded, next to
\* a leaf of bounded items
C5_Witness ==
    /\ Returned
    /\ \E i \in Nodes :
          /\ Node(i).tag = "Leaf"
          /\ Len(Node(i).items) > 4
          /\ AllUnbounded(Node(i).items)
    /\ \E i \in Nodes :
          /\ Node(i).tag = "Leaf"
          /\ Len(Node(i).items) > 0
          /\ ~AllUnbounded(Node(i).items)

\* C15: calling Tree::new with an empty item list fails with an assertion
\* (a fatal programmer error) and never returns a Tree, in every build
\* configuration.
C15_EmptySceneAsserts ==
    (Len(scene) = 0 /\ pc # "new") => pc = "panic: Given empty scene!"

\* C18: for every input of N >= 1 items, the number of nodes Tree::new
\* allocates in the arena never exceeds the pre-reserved capacity 2N-1.
C18_AllocsWithinCapacity ==
    Len(scene) >= 1 => allocs <= (Len(scene) * 2) - 1

\* new_interior has just split its items: the left side is about to be
\* built and the right side waits in the caller's frame
JustSplit ==
    /\ pc = "build"
    /\ Len(stack) >= 2
    /\ Top(stack).kind = "call"
    /\ stack[Len(stack) - 1].kind = "cont"
    /\ stack[Len(stack) - 1].stage = "left"

\* bbox.min on the split axis, the sort key of a median split; an unbounded
\* item sorts before every bounded one
SplitKey(item, axis_idx) ==
    IF item.bbox.some THEN item.bbox.val.min[axis_idx] ELSE -INFINITY

\* C20: when new_interior does not take the SAH split, it falls back to a
\* median split: items are ordered by bbox.min on the split axis with
\* unbounded items first and split at index |items|/2, so the two
\* partitions differ in size by at most one.
C20_FallbackIsMedianSplit ==
    JustSplit =>
        LET left_items == Top(stack).items
            right_items == stack[Len(stack) - 1].right_items
            num_items == Len(left_items) + Len(right_items)
            plan == SplitPlan(left_items \o right_items)
        IN  ~plan.sah =>
                /\ Len(left_items) = num_items \div 2
                /\ Len(right_items) - Len(left_items) \in {0, 1}
                /\ \A i \in 1..Len(left_items), j \in 1..Len(right_items) :
                       SplitKey(left_items[i], plan.axis_idx)
                           <= SplitKey(right_items[j], plan.axis_idx)

(***************************************************************************)
(* Face normals: Quad::hit and Transform::hit on one ray                   *)
(* (src/src/hittables/quad.rs, src/src/hittables/transform.rs).            *)
(* An Affine3A is modelled for the transforms Transform builds from        *)
(* from_scale_factor with factors +1/-1 (mirrorings) and with_translation: *)
(* a diagonal matrix, kept as its diagonal, and a translation.             *)
(***************************************************************************)
Affine3A(matrix3, translation) ==
    [matrix3 |-> matrix3, translation |-> translation]

\* Affine3A::IDENTITY
IDENTITY == Affine3A(splat(1), splat(0))
\* Affine3A::from_scale
from_scale(scale) == Affine3A(scale, splat(0))
\* Affine3A::from_translation
from_translation(translation) == Affine3A(splat(1), translation)
\* Affine3A * Affine3A
AffineMul(lhs, rhs) ==
    Affine3A(VecMulC(lhs.matrix3, rhs.matrix3),
             VecAdd(VecMulC(lhs.matrix3, rhs.translation), lhs.translation))
\* Affine3A::inverse; a diagonal of +1/-1 is its own inverse
inverse(self) ==
    Affine3A(self.matrix3, VecNeg(VecMulC(self.matrix3, self.translation)))
\* Affine3A::transform_point3a
transform_point3a(self, point) ==
    VecAdd(VecMulC(self.matrix3, point), self.translation)
\* Affine3A::transform_vector3a
transform_vector3a(self, vector) == VecMulC(self.matrix3, vector)

\* Transform::from_scale_factor(scale, o).with_translation(t).finalize()
Transform(scale, translation, object) ==
    LET transform == AffineMul(from_translation(translation),
                               from_scale(scale))
    IN  [transform |-> transform, inv_transform |-> inverse(transform),
         object |-> object]

\* Transform::hit
Transform_hit(self, prim, ray, t_min, t_max) ==
    LET transformed_ray ==
            Ray(transform_point3a(self.inv_transform, ray.origin),
                transform_vector3a(self.inv_transform, ray.direction),
                ray.time)
        rec == Hittable_hit(self.object, prim, transformed_ray, t_min, t_max)
    IN  IF rec.some
        THEN LET transformed_rec ==
                     [rec EXCEPT
                         !.point = transform_point3a(self.transform, rec.point),
                         !.normal = transform_vector3a(self.transform,
                                                       rec.normal)]
             IN  set_face_normal(transformed_rec, transformed_ray, rec.normal)
        ELSE NoHit

\* the outward normal Quad::hit hands to set_face_normal
\* (abs_normal.normalize()): the unit vector of the axis of the quad's plane
Quad_outward(self) ==
    LET plane_normal == cross3(VecSub(self.p1, self.p0),
                               VecSub(self.p3, self.p0))
    IN  [i \in 1..3 |-> IF plane_normal[i] # 0 THEN 1 ELSE 0]

\* mirrorings, as from_scale_factor takes them
FaceScales == {Vec3(1, 1, 1), Vec3(-1, 1, 1), Vec3(-1, -1, -1)}
FaceTranslations == {Vec3(0, 0, 0), Vec3(2, 0, 0)}
\* ray origins on both sides of the quad and of its mirror images
FaceOrigins == {Vec3(x, y, 1) : x \in {-8, 0, 8}, y \in {-1, 1}}

InitFace ==
    /\ args \in [quad : {QuadA},
                 scale : FaceScales,
                 translation : FaceTranslations,
                 ray : {Ray(o, d, 0) : o \in FaceOrigins, d \in Directions},
                 interval : {<<0, INFINITY>>}]
    /\ result = NoResult
    /\ IdleTree
    /\ IdleRender
    /\ IdleShade

\* quad.hit(ray, t_min, t_max)
QuadHit ==
    /\ result.op # "Quad::hit"
    /\ result' = [op |-> "Quad::hit",
                  outward |-> Quad_outward(args.quad),
                  val |-> Quad_hit(args.quad, 1, args.ray,
                                   args.interval[1], args.interval[2])]
    /\ UNCHANGED <<args, debug_assertions, scene, pc, arena, root, stack,
                   allocs, query, runs, shade_stack,
                   hits>>

\* Transform::from_scale_factor(scale, &quad).with_translation(translation)
\*     .finalize().hit(ray, t_min, t_max)
\* a mirroring and a translation map the outward normal as they map vectors
TransformHit ==
    /\ result.op # "Transform::hit"
    /\ LET t == Transform(args.scale, args.translation, args.quad)
       IN  result' = [op |-> "Transform::hit",
                      outward |-> transform_vector3a(t.transform,
                                                     Quad_outward(args.quad)),
                      val |-> Transform_hit(t, 1, args.ray, args.interval[1],
                                            args.interval[2])]
    /\ UNCHANGED <<args, debug_assertions, scene, pc, arena, root, stack,
                   allocs, query, runs, shade_stack,
                   hits>>

NextFace == QuadHit \/ TransformHit

SpecFace == InitFace /\ [][NextFace]_vars

\* C10: for every HitRecord returned by a hit call (a primitive finalised
\* with set_face_normal, and also a hit returned through Transform::hit) the
\* recorded normal points against the ray passed to that call,
\* dot(ray.direction, normal) <= 0, and front_face is true exactly when the
\* incident direction faced the geometric outward normal.
C10_NormalFacesRay ==
    (/\ result.op \in {"Quad::hit", "Transform::hit"}
     /\ result.val.some)
    => /\ dot(args.ray.direction, result.val.normal) <= 0
       /\ result.val.front_face
              <=> (dot(args.ray.direction, result.outward) < 0)

(***************************************************************************)
(* Rendering (src/src/main.rs, src/src/render.rs): two runs of the         *)
(* program on the same command line, one after the other.                  *)
(*                                                                         *)
(* A SmallRng is modelled by a state of two bits, one for each draw of     *)
(* compute_pixel_v; gen() yields the low bit of the state as an offset of  *)
(* 0 or 1 half pixels and shifts the state.  Image coordinates are in half *)
(* pixels.                                                                 *)
(***************************************************************************)
MaxSamples == 2

RngStates == 0..3
\* SmallRng::seed_from_u64
seed_from_u64(seed) == seed % 4
\* Rng::gen::<f32>(): the value drawn
gen(rng) == rng % 2
\* Rng::gen::<f32>(): the generator after the draw
gen_next(rng) == rng \div 2

\* camera.get_ray(u, v, rng).shade(&geometry, ...) for the fixed scene: one
\* surface of colour 1 whose image covers the viewport's corner
\* (u, 2 - v) < (1/2, 1/2) pixels, in front of a background of colour 0
shade(u_num, v_num) == IF u_num < 1 /\ v_num < 3 THEN 1 ELSE 0

\* the viewport coordinates of compute_pixel_v as fractions, in halves:
\* an offset of 1 is a jitter of 0.5
viewport(self, x, y, offset_u, offset_v) ==
    [u_num |-> 2 * x + offset_u,
     u_den |-> 2 * (self.image_width - 1),
     v_num |-> 2 * (self.image_height - y) + offset_v,
     v_den |-> 2 * (self.image_height - 1)]

\* RenderContext::compute_pixel_v: u = (x + offset_u) / (width - 1) and
\* v = ((height - y) + offset_v) / (height - 1), kept as numerators
compute_pixel_v(self, x, y, rng) ==
    LET offset_u == gen(rng)
        rng1 == gen_next(rng)
        offset_v == gen(rng1)
        uv == viewport(self, x, y, offset_u, offset_v)
    IN  shade(uv.u_num, uv.v_num)

\* enumerate_pixels_mut(): the coordinates of the buffer
Pixels(self) ==
    (0..(self.image_width - 1)) \X (0..(self.image_height - 1))

\* a sum of samples divided by their number
Mean(sum, samples) == [sum |-> sum, samples |-> samples]
Unwritten == [sum |-> 0, samples |-> 0]

Seeds == {None, Some(1)}

InitRender ==
    /\ args \in [seed : Seeds,
                 image_width : {2},
                 image_height : {2},
                 samples_per_pixel : 1..MaxSamples]
    /\ debug_assertions \in BOOLEAN
    /\ result = NoResult
    /\ scene = <<>>
    /\ pc = "idle"
    /\ arena = <<>>
    /\ root = 0
    /\ stack = <<>>
    /\ allocs = 0
    /\ query = NoQuery
    /\ runs = <<>>
    /\ IdleShade

\* the run in progress
Run == runs[Len(runs)]

\* main, up to the call of render: the root generator is seeded from --seed,
\* from 0 in a debug build, or from entropy, and builds the scene
Main ==
    /\ Len(runs) < 2
    /\ Len(runs) > 0 => Run.pc = "exited"
    /\ \E entropy \in RngStates :
          LET rng == IF args.seed.some THEN seed_from_u64(args.seed.val)
                     ELSE IF debug_assertions THEN seed_from_u64(0)
                     ELSE entropy
          IN  runs' = Append(runs,
                  [pc |-> "render",
                   rng |-> rng,
                   saved |-> FALSE,
                   stdout |-> <<>>,
                   stderr |-> <<>>,
                   exit_code |-> 0,
                   item |-> [px \in Pixels(args) |-> "queued"],
                   writes |-> [px \in Pixels(args) |-> 0],
                   color_v |-> [px \in Pixels(args) |-> Mean(0, 0)],
                   img_buf |-> [px \in Pixels(args) |-> Unwritten]])
    /\ UNCHANGED <<args, result, debug_assertions, scene, pc, arena, root,
                   stack, allocs, query, shade_stack, hits>>

\* what becomes of an item of enumerate_pixels_mut() once for_each has run
\* its closure: the iterator yields every pixel once
ItemRequeued == "taken"
ItemConsumed == "consumed"

\* one sample of one pixel, by the worker that took the pixel from the
\* iterator: a generator is made from thread_rng(), which the operating
\* system seeds, and compute_pixel_v draws from it
Sample ==
    /\ Len(runs) > 0
    /\ Run.pc = "render"
    /\ \E px \in Pixels(args), entropy \in RngStates :
          /\ Run.item[px] \in {"queued", "taken"}
          /\ Run.color_v[px].samples < args.samples_per_pixel
          /\ LET rng == entropy
                 c == compute_pixel_v(args, px[1], px[2], rng)
                 acc == Run.color_v[px]
             IN  runs' = [runs EXCEPT
                     ![Len(runs)].item[px] = "taken",
                     ![Len(runs)].color_v[px] =
                         Mean(acc.sum + c, acc.samples + 1)]
    /\ UNCHANGED <<args, result, debug_assertions, scene, pc, arena, root,
                   stack, allocs, query, shade_stack, hits>>

\* color_v /= samples_per_pixel; *pixel = color_v.to_pixel()
WritePixel ==
    /\ Len(runs) > 0
    /\ Run.pc = "render"
    /\ \E px \in Pixels(args) :
          /\ Run.item[px] = "taken"
          /\ Run.color_v[px].samples = args.samples_per_pixel
          /\ runs' = [runs EXCEPT
                 ![Len(runs)].item[px] = ItemConsumed,
                 ![Len(runs)].writes[px] = @ + 1,
                 ![Len(runs)].img_buf[px] =
                     Mean(Run.color_v[px].sum, args.samples_per_pixel)]
    /\ UNCHANGED <<args, result, debug_assertions, scene, pc, arena, root,
                   stack, allocs, query, shade_stack, hits>>

\* for_each has visited every pixel: render returns the buffer
RenderReturn ==
    /\ Len(runs) > 0
    /\ Run.pc = "render"
    /\ \A px \in Pixels(args) : Run.item[px] = "consumed"
    /\ runs' = [runs EXCEPT ![Len(runs)].pc = "returned"]
    /\ UNCHANGED <<args, result, debug_assertions, scene, pc, arena, root,
                   stack, allocs, query, shade_stack, hits>>

\* main after render: img_buf.save(&cli_args.output) writes the file or fails
\* with an I/O error; either way main prints a line and returns, and a main
\* that returns ends the process with exit code 0
SaveImage ==
    /\ Len(runs) > 0
    /\ Run.pc = "returned"
    /\ \E save_ok \in BOOLEAN :
          runs' = [runs EXCEPT
              ![Len(runs)].pc = "exited",
              ![Len(runs)].saved = save_ok,
              ![Len(runs)].stdout =
                  IF save_ok THEN <<"Image written to">> ELSE <<>>,
              ![Len(runs)].stderr =
                  IF save_ok THEN <<>> ELSE <<"Failed to write">>,
              ![Len(runs)].exit_code = 0]
    /\ UNCHANGED <<args, result, debug_assertions, scene, pc, arena, root,
                   stack, allocs, query, shade_stack, hits>>

NextRender == Main \/ Sample \/ WritePixel \/ RenderReturn \/ SaveImage

SpecRender == InitRender /\ [][NextRender]_vars

\* C6: with a fixed --seed and a fixed scene, two runs of the renderer
\* produce the same image.
C6_SameSeedSameImage ==
    (/\ args.seed.some
     /\ Len(runs) = 2
     /\ runs[2].pc = "returned")
    => runs[1].img_buf = runs[2].img_buf

C13_SaveFailureExitsNonzero ==
    \A r \in 1..Len(runs) :
        runs[r].pc = "exited" =>
            /\ ~runs[r].saved =>
                   runs[r].stderr # <<>> /\ runs[r].exit_code # 0
            /\ runs[r].exit_code = 0 => runs[r].saved

(***************************************************************************)
(* Ray::shade (src/src/ray.rs) and Material (src/src/material.rs).         *)
(* Colours are single channels in whole units.  What the hittable answers  *)
(* to a query and which way a material scatters depend on the scene and on *)
(* the random numbers drawn: both are chosen freely at every bounce.       *)
(***************************************************************************)
MaxBounce == 3

\* the 0.001 of the hit query of Ray::shade, in units of 0.0001
SHADE_T_MIN == 10

Albedos == {1, 2}
Materials ==
    {[kind |-> k, albedo |-> a, brightness |-> 1] :
        k \in {"Lambertian", "Metal", "Isotropic"}, a \in Albedos}
    \cup {[kind |-> "Dielectric", albedo |-> 1, brightness |-> 1]}
    \cup {[kind |-> "DiffuseLight", albedo |-> a, brightness |-> 3] :
              a \in Albedos}

\* Material::emit
emit(self) ==
    IF self.kind = "DiffuseLight" THEN Some(self.brightness * self.albedo)
    ELSE None

\* Material::scatter: the attenuation of the ScatterRecord.  `outward` tells
\* whether the direction a Metal reflects into leaves the surface
\* (scattered.direction.dot(rec.normal) > 0)
scatter(self, outward) ==
    CASE self.kind \in {"Isotropic", "Lambertian"} -> Some(self.albedo)
      [] self.kind = "Metal" -> IF outward THEN Some(self.albedo) ELSE None
      [] self.kind = "Dielectric" -> Some(1)
      [] self.kind = "DiffuseLight" -> None

\* Color::new(Vec3A::ZERO)
BLACK == 0

\* the bounce_depth handed to the recursive call
NextDepthSame(bounce_depth) == bounce_depth
NextDepth(bounce_depth) == bounce_depth - 1

\* Color::new(emit_contrib + scatter_contrib)
ShadeSumScatterOnly(emit_contrib, scatter_contrib) == scatter_contrib
ShadeSum(emit_contrib, scatter_contrib) == emit_contrib + scatter_contrib

\* a call of shade that has not started
ShadeFrame(bounce_depth) == [kind |-> "call", bounce_depth |-> bounce_depth]

\* a call of shade that has returned `val`, with what it saw on the way
ShadeDone(bounce_depth, outcome, queried, emitted, atten, bounced, val) ==
    [kind |-> "ret", bounce_depth |-> bounce_depth, outcome |-> outcome,
     queried |-> queried, emitted |-> emitted, attenuation |-> atten,
     bounced |-> bounced, val |-> val]

InitShade ==
    /\ args \in [bounce_depth : 0..MaxBounce, bg_color : {0, 1}]
    /\ result = NoResult
    /\ IdleTree
    /\ IdleRender
    /\ shade_stack = <<ShadeFrame(args.bounce_depth)>>
    /\ hits = 0

\* Ray::shade from its entry to its first return or recursive call
ShadeCall ==
    /\ shade_stack # <<>>
    /\ Top(shade_stack).kind = "call"
    /\ LET d == Top(shade_stack).bounce_depth
           rest == Pop(shade_stack)
       IN  IF d = 0
           THEN /\ shade_stack' = Append(rest,
                        ShadeDone(d, "limit", <<>>, 0, 0, 0, BLACK))
                /\ hits' = hits
           ELSE /\ hits' = hits + 1
                /\ \E hit_rec \in {NoHit} \cup
                                  {[some |-> TRUE, material |-> m] :
                                       m \in Materials},
                      outward \in BOOLEAN :
                      LET interval == <<SHADE_T_MIN, INFINITY>>
                      IN
                      IF ~hit_rec.some
                      THEN shade_stack' = Append(rest,
                               ShadeDone(d, "miss", interval, 0, 0, 0,
                                         args.bg_color))
                      ELSE
                      LET mat == hit_rec.material
                          emit_contrib == IF emit(mat).some
                                          THEN emit(mat).val ELSE 0
                          scattered == scatter(mat, outward)
                      IN  IF scattered.some
                          THEN shade_stack' =
                                   Append(Append(rest,
                                       [kind |-> "cont", bounce_depth |-> d,
                                        queried |-> interval,
                                        emitted |-> emit_contrib,
                                        attenuation |-> scattered.val]),
                                       ShadeFrame(NextDepth(d)))
                          ELSE shade_stack' = Append(rest,
                                   ShadeDone(d, "no scatter", interval,
                                             emit_contrib, 0, 0,
                                             ShadeSum(emit_contrib, 0)))
    /\ UNCHANGED <<args, result, debug_assertions, scene, pc, arena, root,
                   stack, allocs, query, runs>>

\* the recursive call returns `bounced`: the caller adds its contributions
\* and returns
ShadeReturn ==
    /\ Len(shade_stack) >= 2
    /\ Top(shade_stack).kind = "ret"
    /\ LET bounced == Top(shade_stack)
           caller == Top(Pop(shade_stack))
           scatter_contrib == caller.attenuation * bounced.val
       IN  shade_stack' = Append(Pop(Pop(shade_stack)),
               ShadeDone(caller.bounce_depth, "scatter", caller.queried,
                         caller.emitted, caller.attenuation, bounced,
                         ShadeSum(caller.emitted, scatter_contrib)))
    /\ UNCHANGED <<args, result, debug_assertions, scene, pc, arena, root,
                   stack, allocs, query, runs, hits>>

\* the outermost call returns to compute_pixel_v
ShadeExit ==
    /\ Len(shade_stack) = 1
    /\ Top(shade_stack).kind = "ret"
    /\ result' = [op |-> "shade", val |-> Top(shade_stack).val,
                  call |-> Top(shade_stack)]
    /\ shade_stack' = <<>>
    /\ UNCHANGED <<args, debug_assertions, scene, pc, arena, root, stack,
                   allocs, query, runs, hits>>

NextShade == ShadeCall \/ ShadeReturn \/ ShadeExit

SpecShade == InitShade /\ [][NextShade]_vars

\* C11: for every scene, ray and bounce_depth d, Ray::shade terminates and
\* performs at most d+1 hit queries along the path, whatever the materials
\* scatter: the calls never nest deeper than d+1 and the queries made never
\* exceed d+1.
C11_ShadeBounded ==
    /\ hits <= args.bounce_depth + 1
    /\ Len(shade_stack) <= args.bounce_depth + 1

\* a path that scattered at every bounce until the depth limit cut it
C11_Witness ==
    /\ result.op = "shade"
    /\ args.bounce_depth = MaxBounce
    /\ hits = MaxBounce

\* what C12 says of one returned call of shade and of the calls below it
RECURSIVE ShadeAsSpecified(_)
ShadeAsSpecified(call) ==
    IF call.bounce_depth = 0
    THEN call.val = 0 /\ call.queried = <<>>
    ELSE /\ call.queried = <<SHADE_T_MIN, INFINITY>>
         /\ call.outcome \in {"miss", "no scatter", "scatter"}
         /\ call.outcome = "miss" => call.val = args.bg_color
         /\ call.outcome = "no scatter" => call.val = call.emitted
         /\ call.outcome = "scatter" =>
                /\ call.bounced.bounce_depth = call.bounce_depth - 1
                /\ call.val = call.emitted
                                + call.attenuation * call.bounced.val
                /\ ShadeAsSpecified(call.bounced)

\* C12: Ray::shade returns black when bounce_depth is 0 without querying
\* the hittable; otherwise it returns bg_color when the hit query on
\* (0.001, +inf) misses, the emitted colour alone when the hit material does
\* not scatter, and emitted + attenuation * shade(scattered ray,
\* bounce_depth - 1) when it scatters.
C12_ShadeValue ==
    /\ result.op = "shade" =>
           /\ ShadeAsSpecified(result.call)
           /\ args.bounce_depth = 0 => hits = 0
    /\ (shade_stack # <<>> /\ Top(shade_stack).kind = "ret") =>
           ShadeAsSpecified(Top(shade_stack))

\* a path that scattered, then hit a light: the light's emission comes back
\* attenuated
C12_Witness ==
    /\ result.op = "shade"
    /\ result.call.outcome = "scatter"
    /\ result.call.attenuation = 2
    /\ result.call.bounced.outcome = "no scatter"
    /\ result.call.bounced.emitted = 6
    /\ result.val = 12

(***************************************************************************)
(* Command line (src/src/cli.rs).  A string is a sequence of characters; a *)
(* path is its file stem and its extension (None when it has none).        *)
(***************************************************************************)
MaxDigits == 2

\* Result::Ok / Result::Err
Ok(v) == [ok |-> TRUE, val |-> v]
Err(e) == [ok |-> FALSE, err |-> e]

DigitValue ==
    [c \in {"0", "1", "2"} |-> CASE c = "0" -> 0 [] c = "1" -> 1 [] c = "2" -> 2]

\* the value of a string of digits, read from the left
RECURSIVE DigitsValue(_, _)
DigitsValue(digits, acc) ==
    IF digits = <<>> THEN acc
    ELSE DigitsValue(Tail(digits), 10 * acc + DigitValue[Head(digits)])

\* u16::MAX
U16_MAX == 65535

\* the value does not fit an unsigned integer of `bits` bits.  u32::MAX is
\* beyond the model's integers and beyond every value its strings denote
PosOverflow(value, bits) == bits = 16 /\ value > U16_MAX

\* str::parse::<T>() for an unsigned integer type T of `bits` bits: an
\* optional '+', then at least one digit and nothing but digits
parse_unsigned(str, bits) ==
    IF str = <<>> THEN Err("cannot parse integer from empty string")
    ELSE LET digits == IF Head(str) = "+" THEN Tail(str) ELSE str
         IN  IF digits = <<>>
                \/ \E i \in 1..Len(digits) : digits[i] \notin DOMAIN DigitValue
             THEN Err("invalid digit found in string")
             ELSE IF PosOverflow(DigitsValue(digits, 0), bits)
                  THEN Err("number too large to fit in target type")
                  ELSE Ok(DigitsValue(digits, 0))

\* valid_count::<T>
valid_count_or_zero(str, bits) == parse_unsigned(str, bits)
valid_count(str, bits) ==
    LET parsed == parse_unsigned(str, bits)
    IN  IF parsed.ok
        THEN IF parsed.val > 0 THEN Ok(parsed.val)
             ELSE Err("count must be greater than 0")
        ELSE Err(parsed.err)

\* str::to_ascii_lowercase on the extensions tried
to_ascii_lowercase(ext) == IF ext = "PNG" THEN "png" ELSE ext

\* image::ImageFormat::from_path: the format is read off the extension
ImageFormat_from_path(path) ==
    IF ~path.extension.some THEN Err("Unsupported")
    ELSE LET ext == to_ascii_lowercase(path.extension.val)
         IN  CASE ext = "png" -> Ok("Png")
               [] ext = "jpg" -> Ok("Jpeg")
               [] ext = "dds" -> Ok("Dds")
               [] OTHER -> Err("Unsupported")

\* valid_image_format: ImageOutputFormat::from(format) is Unsupported for a
\* format the image crate cannot encode
valid_image_format(format) ==
    IF format \in {"Png", "Jpeg"} THEN Ok(<<>>) ELSE Err("Unsupported")

\* valid_image_file
valid_image_file(path) ==
    LET format == ImageFormat_from_path(path)
        checked == IF format.ok THEN valid_image_format(format.val)
                   ELSE format
    IN  IF checked.ok THEN Ok(path) ELSE Err(checked.err)

\* Arguments::command().try_get_matches_from(argv): clap turns the Err of a
\* value_parser into an error of kind ValueValidation
try_get_matches_from(argv) ==
    LET output == valid_image_file(argv.output)
        image_width == valid_count(argv.width, 32)
        samples_per_pixel == valid_count(argv.samples, 32)
        bounce_depth == valid_count(argv.bounces, 16)
    IN  IF output.ok /\ image_width.ok /\ samples_per_pixel.ok
           /\ bounce_depth.ok
        THEN Ok([output |-> output.val, image_width |-> image_width.val,
                 samples_per_pixel |-> samples_per_pixel.val,
                 bounce_depth |-> bounce_depth.val])
        ELSE Err("ValueValidation")

CliChars == {"0", "1", "2", "+", "-", "x"}
RECURSIVE StringsUpTo(_)
StringsUpTo(n) ==
    IF n = 0 THEN {<<>>}
    ELSE LET shorter == StringsUpTo(n - 1)
         IN  shorter \cup {Append(str, c) : str \in shorter, c \in CliChars}
CountStrings == StringsUpTo(MaxDigits)
FewCounts == {<<"0">>, <<"1">>, <<"+", "0">>, <<"x">>}
OutputPaths ==
    {[stem |-> "output", extension |-> e] :
        e \in {None, Some("png"), Some("PNG"), Some("jpg"), Some("dds"),
               Some("txt")}}

InitCli ==
    /\ args \in [output : OutputPaths, width : CountStrings,
                 samples : FewCounts, bounces : FewCounts]
    /\ result = NoResult
    /\ debug_assertions = FALSE
    /\ scene = <<>>
    /\ pc = "main"
    /\ arena = <<>>
    /\ root = 0
    /\ stack = <<>>
    /\ allocs = 0
    /\ query = NoQuery
    /\ IdleRender
    /\ IdleShade

\* main: Arguments::parse() returns the Arguments or prints the error and
\* ends the process with exit code 2
ParseArgs ==
    /\ pc = "main"
    /\ result' = [op |-> "parse", val |-> try_get_matches_from(args)]
    /\ pc' = IF try_get_matches_from(args).ok THEN "parsed" ELSE "exit 2"
    /\ UNCHANGED <<args, debug_assertions, scene, arena, root, stack,
                   allocs, query, runs, shade_stack, hits>>

\* main: scenes::get_scene(cli_args.image_width, cli_args.scene, &mut rng)
GetScene ==
    /\ pc = "parsed"
    /\ pc' = "scene built"
    /\ UNCHANGED <<args, result, debug_assertions, scene, arena, root,
                   stack, allocs, query, runs, shade_stack, hits>>

NextCli == ParseArgs \/ GetScene

SpecCli == InitCli /\ [][NextCli]_vars

\* the string denotes the number 0
IsZero(str) ==
    LET digits == IF str # <<>> /\ Head(str) = "+" THEN Tail(str) ELSE str
    IN  digits # <<>> /\ \A i \in 1..Len(digits) : digits[i] = "0"

\* the extension is none the image crate can encode
UnsupportedExtension(path) ==
    ~path.extension.some
    \/ path.extension.val \notin {"png", "PNG", "jpg"}

\* C14: argument parsing fails with a value-validation error, before any
\* scene is built or pixel rendered, when the output path has an unsupported
\* image extension or when width, samples or bounces is 0; no Arguments
\* value is produced in that case.
C14_InvalidArgumentsRejected ==
    (\/ UnsupportedExtension(args.output)
     \/ IsZero(args.width) \/ IsZero(args.samples) \/ IsZero(args.bounces))
    => /\ pc \in {"main", "exit 2"}
       /\ result.op = "parse" =>
              ~result.val.ok /\ result.val.err = "ValueValidation"

\* a width of 0 between valid arguments has been rejected
C14_Witness ==
    /\ pc = "exit 2"
    /\ IsZero(args.width)
    /\ ~UnsupportedExtension(args.output)
    /\ valid_count(args.samples, 32).ok
    /\ valid_count(args.bounces, 16).ok

(***************************************************************************)
(* Arena on its own (src/src/utils/arena.rs): any sequence of add and get  *)
(* on an arena that starts empty.                                          *)
(***************************************************************************)
MaxArena == 4

ArenaItems == {"a", "b"}

InitArena ==
    /\ args = NoResult
    /\ result = NoResult
    /\ debug_assertions = FALSE
    /\ scene = <<>>
    /\ pc = "idle"
    /\ arena = Arena_new
    /\ root = 0
    /\ stack = <<>>
    /\ allocs = 0
    /\ query = NoQuery
    /\ IdleRender
    /\ IdleShade

\* arena.add(item)
ArenaAdd ==
    /\ Arena_len(arena) < MaxArena
    /\ \E item \in ArenaItems :
          /\ args' = [op |-> "add", item |-> item, before |-> arena]
          /\ arena' = Arena_add(arena, item)
          /\ result' = [op |-> "add", val |-> Arena_add_index(arena)]
    /\ UNCHANGED <<debug_assertions, scene, pc, root, stack, allocs, query,
                   runs, shade_stack, hits>>

\* arena.get(index)
ArenaGet ==
    /\ \E index \in 0..(MaxArena + 1) :
          /\ args' = [op |-> "get", index |-> index, before |-> arena]
          /\ result' = [op |-> "get", val |-> Arena_get(arena, index)]
    /\ UNCHANGED <<debug_assertions, scene, pc, arena, root, stack, allocs,
                   query, runs, shade_stack, hits>>

NextArena == ArenaAdd \/ ArenaGet

SpecArena == InitArena /\ [][NextArena]_vars

\* C17: Arena is append-only: Arena::add stores the item at the index equal
\* to the arena length before the call, returns that index, increases len
\* by exactly one, and leaves every previously stored item at its index
\* unchanged; Arena::get returns None for any index >= len.
C17_ArenaAppendOnly ==
    /\ result.op = "add" =>
          /\ result.val = Arena_len(args.before)
          /\ Arena_len(arena) = Arena_len(args.before) + 1
          /\ Arena_get(arena, result.val) = Some(args.item)
          /\ \A i \in 0..(Arena_len(args.before) - 1) :
                 Arena_get(arena, i) = Arena_get(args.before, i)
    /\ result.op = "get" =>
          /\ arena = args.before
          /\ args.index >= Arena_len(arena) => result.val = None

\* an add onto an arena that already holds a different item
C17_Witness ==
    /\ result.op = "add"
    /\ Arena_len(args.before) >= 2
    /\ Arena_get(args.before, 0) # Some(args.item)

(***************************************************************************)
(* BoundingBox::longest_axis on its own (src/src/bounds.rs), on boxes with *)
(* min < max on every axis.                                                *)
(***************************************************************************)
AxisMax == 3

AxisBoxes ==
    {BoundingBox(splat(m), Vec3(m + x, m + y, m + z)) :
        m \in {0, 1}, x \in 1..AxisMax, y \in 1..AxisMax, z \in 1..AxisMax}

InitAxis ==
    /\ args \in [box : AxisBoxes]
    /\ result = NoResult
    /\ IdleTree
    /\ IdleRender
    /\ IdleShade

\* bbox.longest_axis()
LongestAxis ==
    /\ result.op # "longest_axis"
    /\ result' = [op |-> "longest_axis", val |-> longest_axis(args.box)]
    /\ UNCHANGED <<args, debug_assertions, scene, pc, arena, root, stack,
                   allocs, query, runs, shade_stack, hits>>

NextAxis == LongestAxis

SpecAxis == InitAxis /\ [][NextAxis]_vars

\* the extent of the box along an axis
Extent(box, axis) == box.max[axis] - box.min[axis]

\* C19: BoundingBox::longest_axis returns the axis with the largest extent,
\* and on ties prefers X over Y over Z: of the axes of largest extent it
\* returns the first.
C19_LongestAxisTies ==
    result.op = "longest_axis" =>
        /\ \A axis \in 1..3 :
               Extent(args.box, axis) <= Extent(args.box, result.val)
        /\ \A axis \in 1..3 :
               Extent(args.box, axis) = Extent(args.box, result.val)
                   => result.val <= axis

(***************************************************************************)
(* The split cost of new_interior (src/src/tree.rs)                        *)
(***************************************************************************)
\* the accumulated Bin of bins lo..hi: the number of items in them and the
\* union of the boxes of the non-empty ones
RECURSIVE AccBins(_, _, _)
AccBins(bins, lo, hi) ==
    IF lo > hi THEN Bin_default
    ELSE LET acc == AccBins(bins, lo, hi - 1)
         IN  IF bins[hi].count > 0
             THEN [bbox |-> union(acc.bbox, bins[hi].bbox),
                   count |-> acc.count + bins[hi].count]
             ELSE acc

\* SurfaceArea_Left * Num_Left + SurfaceArea_Right * Num_Right for the
\* split after bin k; a side without items contributes nothing
SahCost(bins, k) ==
    BinTerm(AccBins(bins, 0, k)) + BinTerm(AccBins(bins, k + 1, NUM_BINS - 1))

\* C21: for each of the NUM_BINS - 1 candidate splits k, the cost computed
\* by new_interior equals (number of items in bins 0..k) * SA(union of the
\* boxes of bins 0..k) + (number of items in bins k+1..15) * SA(union of
\* the boxes of bins k+1..15), with empty bins contributing nothing, and
\* min_bin_idx is the argmin of that cost.
C21_CostIsSahCost ==
    JustSplit =>
        LET plan == SplitPlan(Top(stack).items
                                  \o stack[Len(stack) - 1].right_items)
        IN  /\ \A k \in 0..(NUM_BINS - 2) :
                   plan.costs[k] = SahCost(plan.bins, k)
            /\ \A k \in 0..(NUM_BINS - 2) :
                   SahCost(plan.bins, plan.min_bin_idx)
                       <= SahCost(plan.bins, k)

(***************************************************************************)
(* Arena layout of a built tree (src/src/tree.rs)                          *)
(***************************************************************************)
\* the arena indices of the nodes of the subtree rooted at node n
Subtree(n) == {i \in Nodes : PathsFrom(n, i, Arena_len(arena)) >= 1}

\* C22: in every built tree an interior node's arena slot is allocated
\* before its children: the root is index 0 and, for every Interior at
\* index i, left = i + 1, right > left, and every index of the left
\* subtree is smaller than every index of the right subtree.
C22_ParentBeforeChildren ==
    Returned =>
        /\ root = 0
        /\ \A i \in Nodes :
              Node(i).tag = "Interior" =>
                  /\ Node(i).left = i + 1
                  /\ Node(i).right > Node(i).left
                  /\ \A l \in Subtree(Node(i).left) :
                        \A r \in Subtree(Node(i).right) : l < r

\* a returned tree whose root's left child is itself an interior node, so
\* that the left subtree holds several indices below the right child's
C22_Witness ==
    /\ Returned
    /\ Node(root).tag = "Interior"
    /\ Node(Node(root).left).tag = "Interior"
    /\ Cardinality(Subtree(Node(root).left)) >= 3
    /\ Node(root).right > Node(root).left + 2

(***************************************************************************)
(* The list intersector on the queried scene (src/src/hittables/list.rs)   *)
(***************************************************************************)
\* what item i of the scene answers to the query's ray within (t_min, tm)
ItemHit(i, tm) == Hittable_hit(scene[i], i, query.ray, query.t_min, tm)

\* the loop of Vec<T>::hit from item i on: for each item the t_closest it
\* is handed as t_max and the hit_result it returns
RECURSIVE ListHitTrace(_, _)
ListHitTrace(i, t_closest) ==
    IF i > Len(scene) THEN <<>>
    ELSE LET hit_result == ItemHit(i, t_closest)
         IN  <<[t_max |-> t_closest, hit_result |-> hit_result]>>
             \o ListHitTrace(i + 1, IF hit_result.some THEN hit_result.t
                                    ELSE t_closest)

\* <<i, hit>> for every item i of the scene that reports a hit within the
\* query's whole interval
Hitting ==
    {p \in {<<i, ItemHit(i, query.t_max)>> : i \in 1..Len(scene)} :
        p[2].some}

\* C23: Vec<T>::hit returns the hit with the smallest t among all items
\* that report a hit within (t_min, t_max), and None when no item hits,
\* provided each item only returns hits whose t does not exceed the t_max
\* it is given; no item is queried with a t_max larger than the closest t
\* found so far.
C23_ListHitIsClosest ==
    query.op = "hit" =>
        LET hitting == Hitting
            trace == ListHitTrace(1, query.t_max)
            respects ==
                /\ \A p \in hitting : p[2].t <= query.t_max
                /\ \A i \in 1..Len(trace) :
                      trace[i].hit_result.some =>
                          trace[i].hit_result.t <= trace[i].t_max
        IN  respects =>
            /\ query.list.some = (hitting # {})
            /\ query.list.some =>
                  /\ <<query.list.prim, query.list>> \in hitting
                  /\ \A p \in hitting : query.list.t <= p[2].t
            /\ \A i \in 1..Len(trace) :
                  /\ trace[i].t_max <= query.t_max
                  /\ \A p \in hitting :
                        p[1] < i => trace[i].t_max <= p[2].t

\* a query where two items hit at different t and the closer one comes
\* first in the list, so that the later, farther one must be rejected
C23_Witness ==
    /\ query.op = "hit"
    /\ query.list.some
    /\ \E p \in Hitting :
          /\ p[1] > query.list.prim
          /\ p[2].t > query.list.t

(***************************************************************************)
(* The calls of hit_impl during a query (src/src/tree.rs)                  *)
(***************************************************************************)
\* hit_impl on node idx of the built tree with the query's ray and t_min
NodeHit(idx, t_max) ==
    hit_impl(arena, scene, idx, query.ray, recip(query.ray.direction),
             query.t_min, t_max)

NodePruned(idx, t_max) ==
    Pruned(Node(idx), query.ray, recip(query.ray.direction),
           query.t_min, t_max)

\* the calls <<idx, t_max>> of hit_impl that the call on node idx with
\* t_max makes, itself included
RECURSIVE HitCalls(_, _)
HitCalls(idx, t_max) ==
    {<<idx, t_max>>} \cup
        IF NodePruned(idx, t_max) \/ Node(idx).tag = "Leaf" THEN {}
        ELSE HitCalls(Node(idx).left, t_max)
             \cup HitCalls(Node(idx).right,
                           TightenedTMax(NodeHit(Node(idx).left, t_max),
                                         t_max))

\* the calls of hit_impl on interior nodes that pass their box test
InteriorCalls ==
    {c \in HitCalls(root, query.t_max) :
        Node(c[1]).tag = "Interior" /\ ~NodePruned(c[1], c[2])}

\* C24: at an Interior node, hit_impl searches the left child with the
\* caller's t_max, then the right child with t_max tightened to the left
\* hit's t when there is one, and returns the hit with the smaller t of
\* the two: the left hit when the right child misses, None when both miss.
C24_InteriorReturnsCloser ==
    query.op = "hit" =>
        \A c \in InteriorCalls :
            LET left_hit == NodeHit(Node(c[1]).left, c[2])
                right_hit == NodeHit(Node(c[1]).right,
                                     IF left_hit.some THEN left_hit.t
                                     ELSE c[2])
                res == NodeHit(c[1], c[2])
            IN  /\ res.some = (left_hit.some \/ right_hit.some)
                /\ ~right_hit.some => res = left_hit
                /\ ~left_hit.some => res = right_hit
                /\ (left_hit.some /\ right_hit.some) =>
                      /\ res \in {left_hit, right_hit}
                      /\ res.t <= left_hit.t
                      /\ res.t <= right_hit.t

\* a query that passes an interior node whose left child hits and whose
\* right child, searched up to the caller's t_max, has a farther hit that
\* the tightened search rejects
C24_Witness ==
    /\ query.op = "hit"
    /\ \E c \in InteriorCalls :
          /\ NodeHit(Node(c[1]).left, c[2]).some
          /\ NodeHit(Node(c[1]).right, c[2]).some
          /\ NodeHit(Node(c[1]).right, c[2]).t
                 > NodeHit(Node(c[1]).left, c[2]).t
          /\ NodeHit(c[1], c[2]) = NodeHit(Node(c[1]).left, c[2])

(***************************************************************************)
(* Absent boxes (src/src/tree.rs)                                          *)
(***************************************************************************)
\* the positions in the scene of the items held by the leaves beneath node n
ItemsBeneath(n) ==
    UNION {{Node(i).items[j] : j \in 1..Len(Node(i).items)} :
              i \in {l \in Subtree(n) : Node(l).tag = "Leaf"}}

\* C25: in every built tree a node's bbox is absent if and only if every
\* item beneath that node is unbounded (its bounding_box returned None); a
\* node whose bbox is absent is never pruned by hit_impl: its items or
\* children are always visited.
C25_AbsentBoxMeansUnbounded ==
    /\ Returned =>
          \A n \in Nodes :
              (~Node(n).bbox.some)
                  <=> \A id \in ItemsBeneath(n) :
                          ~Hittable_bounding_box(scene[id]).some
    /\ query.op = "hit" =>
          \A c \in HitCalls(root, query.t_max) :
              ~Node(c[1]).bbox.some =>
                  /\ ~NodePruned(c[1], c[2])
                  /\ Node(c[1]).tag = "Leaf" =>
                        NodeHit(c[1], c[2])
                            = List_hit(scene, Node(c[1]).items, query.ray,
                                       query.t_min, c[2])

\* a query on a tree with an interior root that reaches a leaf without a
\* box, holding unbounded items only, and gets a hit from it
C25_Witness ==
    /\ query.op = "hit"
    /\ Node(root).tag = "Interior"
    /\ Node(root).bbox.some
    /\ \E c \in HitCalls(root, query.t_max) :
          /\ ~Node(c[1]).bbox.some
          /\ Len(Node(c[1]).items) > 0
          /\ NodeHit(c[1], c[2]).some

(***************************************************************************)
(* Specification SpecScatter: Material::scatter of a Lambertian on drawn   *)
(* normals and random unit vectors (src/src/material.rs).  Vectors are in  *)
(* units of 1 / SCATTER_ONE; every non-zero component of the grid is far   *)
(* above f32::EPSILON in magnitude, which the model places at one unit.    *)
(***************************************************************************)
\* 1.0 in the units of the scatter vectors
SCATTER_ONE == 10
\* std::f32::EPSILON
EPSILON == 1

\* the vectors of length 1 on the grid: the axes and the 6-8-10 triangles
UnitVectors ==
    {v \in {Vec3(x, y, z) : x \in {-10, -8, -6, 0, 6, 8, 10},
                            y \in {-10, -8, -6, 0, 6, 8, 10},
                            z \in {-10, -8, -6, 0, 6, 8, 10}} :
        dot(v, v) = SCATTER_ONE * SCATTER_ONE}

\* scatter_dir.cmplt(Vec3A::splat(EPSILON)).all()
NearZero(scatter_dir) == \A i \in 1..3 : scatter_dir[i] < EPSILON

\* Material::scatter for Material::Lambertian: the direction of the
\* scattered ray
Lambertian_scatter(normal, rand_unit_v) ==
    LET scatter_dir == VecAdd(normal, rand_unit_v)
    IN  Some(IF NearZero(scatter_dir) THEN normal ELSE scatter_dir)

InitScatter ==
    /\ args \in [normal : UnitVectors, rand_unit_v : UnitVectors]
    /\ result = NoResult
    /\ IdleTree
    /\ IdleRender
    /\ IdleShade

\* material.scatter(ray, rec, rng) with rec.normal and the drawn vector
Scatter ==
    /\ result.op # "scatter"
    /\ result' = [op |-> "scatter",
                  val |-> Lambertian_scatter(args.normal, args.rand_unit_v)]
    /\ UNCHANGED <<args, debug_assertions, scene, pc, arena, root, stack,
                   allocs, query, runs, shade_stack, hits>>

NextScatter == Scatter

SpecScatter == InitScatter /\ [][NextScatter]_vars

\* C26: Lambertian scatter always scatters, and the scattered direction is
\* normal + random_unit_vector unless that sum is near zero in every
\* component (absolute value below epsilon), in which case it is the
\* normal; a sum with a large negative component is not replaced.
C26_LambertianDirection ==
    result.op = "scatter" =>
        LET sum == VecAdd(args.normal, args.rand_unit_v)
        IN  /\ result.val.some
            /\ result.val.val =
                   IF \A i \in 1..3 : Abs(sum[i]) < EPSILON
                   THEN args.normal ELSE sum

(***************************************************************************)
(* The items of the leaves (src/src/tree.rs)                               *)
(***************************************************************************)
\* the leaves of the built tree
Leaves == {n \in Nodes : Node(n).tag = "Leaf"}

\* the <<leaf, position>> slots of the built tree that hold item `id`
SlotsOf(id) ==
    {s \in UNION {{<<n, j>> : j \in 1..Len(Node(n).items)} : n \in Leaves} :
        Node(s[1]).items[s[2]] = id}

\* C27: Tree::new preserves the item multiset: every input item appears in
\* exactly one leaf of the built tree exactly once, and no leaf holds an
\* item that was not in the input.
C27_ItemsPreserved ==
    Returned =>
        /\ \A id \in 1..Len(scene) : Cardinality(SlotsOf(id)) = 1
        /\ \A n \in Leaves :
              \A j \in 1..Len(Node(n).items) :
                  Node(n).items[j] \in 1..Len(scene)

\* a returned tree of several leaves, built from a scene that lists the
\* same hittable more than once and holds an unbounded one
C27_Witness ==
    /\ Returned
    /\ Cardinality(Leaves) >= 3
    /\ \E i, j \in 1..Len(scene) : i # j /\ scene[i] = scene[j]
    /\ \E i \in 1..Len(scene) : ~Hittable_bounding_box(scene[i]).some

\* C28: every leaf of a tree returned by Tree::new holds at least one item:
\* whenever new_interior partitions more than 4 items, both partitions
\* passed to the recursive calls are non-empty and strictly smaller than
\* the input.
C28_PartitionsNonEmpty ==
    /\ Returned => \A n \in Leaves : Len(Node(n).items) >= 1
    /\ JustSplit =>
          LET left_items == Top(stack).items
              right_items == stack[Len(stack) - 1].right_items
              num_items == Len(left_items) + Len(right_items)
          IN  /\ num_items > 4
              /\ Len(left_items) >= 1
              /\ Len(right_items) >= 1
              /\ Len(left_items) < num_items
              /\ Len(right_items) < num_items

(***************************************************************************)
(* The branchless box test against the points of the ray                   *)
(* (src/src/bounds.rs)                                                     *)
(***************************************************************************)
\* The parameters t at which the ray is looked at.  Origins, box corners
\* and interval ends are integers and direction components are -1, 0 or 1,
\* so the part of the ray inside the box and the interval is an interval
\* with integer ends: if it holds any t it holds an integer one, and none
\* beyond the farthest corner from the farthest origin.
RayParams == 0..(2 * HitMax + 3)

\* some t with t_min <= t <= t_max puts ray.at(t) inside the box, boundary
\* included
CrossesWithin(box, ray, t_min, t_max) ==
    \E t \in RayParams :
        /\ t_min <= t
        /\ t <= t_max
        /\ inside(box, at(ray, t))

\* C29: the branchless box test is conservative: for every box with
\* min <= max, every ray and every interval, if some t with
\* t_min <= t <= t_max puts ray.at(t) inside the box (boundary included),
\* hit_with_inv returns true.
C29_BoxTestConservative ==
    (/\ result.op = "hit_with_inv"
     /\ CrossesWithin(args.box, args.ray,
                      args.interval[1], args.interval[2]))
    => result.val

\* hit_with_inv answered for a ray that runs inside a face plane of the
\* box (a slab whose t0 or t1 is 0 * infinity) and crosses the box there
C29_Witness ==
    /\ result.op = "hit_with_inv"
    /\ InFacePlane(args.box, args.ray)
    /\ args.interval = <<1, 3>>
    /\ CrossesWithin(args.box, args.ray, args.interval[1], args.interval[2])
    /\ ~inside(args.box, args.ray.origin)

(***************************************************************************)
(* Specification SpecViewport: the viewport coordinates compute_pixel_v    *)
(* derives from the pixel coordinates, without jitter                      *)
(* (src/src/render.rs)                                                     *)
(***************************************************************************)
\* image widths and heights run from 2 to MaxImage
MaxImage == 6

InitViewport ==
    /\ args \in {a \in [image_width : 2..MaxImage, image_height : 2..MaxImage,
                        x : 0..(MaxImage - 1), y : 0..(MaxImage - 1)] :
                    a.x < a.image_width /\ a.y < a.image_height}
    /\ result = NoResult
    /\ IdleTree
    /\ IdleRender
    /\ IdleShade

\* the (u, v) of compute_pixel_v(x, y) when both rng.gen() return 0.0
Viewport ==
    /\ result.op # "viewport"
    /\ result' = [op |-> "viewport",
                  val |-> viewport(args, args.x, args.y, 0, 0)]
    /\ UNCHANGED <<args, debug_assertions, scene, pc, arena, root, stack,
                   allocs, query, runs, shade_stack, hits>>

NextViewport == Viewport

SpecViewport == InitViewport /\ [][NextViewport]_vars

\* C30: for every image size W >= 2, H >= 2 and every pixel (x, y) with
\* 0 <= x < W and 0 <= y < H, the viewport coordinates computed by
\* compute_pixel_v with zero jitter lie within [0, 1]: s = 0 at x = 0,
\* s = 1 at x = W - 1, t = 1 at the top row y = 0 and t = 0 at the bottom
\* row y = H - 1.
C30_ViewportInUnitSquare ==
    result.op = "viewport" =>
        LET uv == result.val
        IN  /\ 0 <= uv.u_num /\ uv.u_num <= uv.u_den
            /\ 0 <= uv.v_num /\ uv.v_num <= uv.v_den
            /\ args.x = 0 => uv.u_num = 0
            /\ args.x = args.image_width - 1 => uv.u_num = uv.u_den
            /\ args.y = 0 => uv.v_num = uv.v_den
            /\ args.y = args.image_height - 1 => uv.v_num = 0

=============================================================================
